---- MODULE Spec2Model ----
(***************************************************************************)
(* Memory-management core of the kernel: the intrusive free list           *)
(* (mm/mem_allocator/linked_list.rs), the Buddy Heap                       *)
(* (mm/mem_allocator/buddyheap.rs), the Slab allocator                     *)
(* (mm/mem_allocator/slab.rs, heap.rs), the frame allocator                *)
(* (mm/frame_allocator.rs) and the address types (mm/address.rs).          *)
(*                                                                         *)
(* Memory is a map from the address of a block's first machine word to the *)
(* link stored there; a list is a head pointer plus the links stored in    *)
(* the blocks themselves.  The null pointer is 0.  The map holds the words *)
(* of the blocks that are in a list: when a block leaves its list the word *)
(* belongs to the new owner, who may write anything there, so it is taken  *)
(* out of the map and a later read of it as a link would be an error.      *)
(***************************************************************************)
EXTENDS Integers, Sequences, FiniteSets, TLC

VARIABLES
    buddy_heap,     \* Heap: [free_list, user, allocated, total]
    slabs,          \* Slabheap.slab64 .. slab4096: class size -> [head, total_blocks]
    slab_used,      \* Slabheap.used
    slab_allocated, \* Slabheap.allocated
    mem,            \* first word of every block that was ever linked into a list
    phase,          \* "new" before init, "ready" after it, "panicked" after an abort
    region,         \* <<start, size>> as handed to init
    init_blocks,    \* the free blocks (address, class) right after init
    live,           \* blocks handed out and not yet given back, with their layouts
    streak,         \* calls since init while each of them was an alloc that returned a block; -1 afterwards
    last            \* the last call: its arguments, what it returned, what it asked of the Buddy Heap

VARIABLES
    frame_allocator, \* FRAME_ALLOCATOR: StackFrameAllocator [current, end, recycled]
    held,            \* page number -> how many handles (returned frames, FrameTrackers) to it are live
    issued,          \* the page numbers returned by alloc or alloc_contig since init
    page_mem,        \* page number -> (offset -> byte) for the bytes that are not 0
    fphase,          \* "new" before init, "ready" after it, "panicked" after an abort
    frange,          \* <<l, r>> as handed to init
    flast            \* the last call on the frame allocator

VARIABLES
    addr,            \* the value a conversion of address.rs is applied to, with its type
    conv             \* the last conversion: its argument and what it gave

heap_vars == <<buddy_heap, slabs, slab_used, slab_allocated, mem, phase, region,
               init_blocks, live, streak, last>>

frame_vars == <<frame_allocator, held, issued, page_mem, fphase, frange, flast>>

addr_vars == <<addr, conv>>

VARIABLES
    range,           \* a SimpleRange [l, r], once constructed
    range_iter,      \* the SimpleRangeIterator over it [current, end] and the items it gave
    rlast            \* the last call on the range or its iterator

range_vars == <<range, range_iter, rlast>>

VARIABLES
    borrowed,        \* the UPSafeCells whose guard is held
    pending,         \* what the call under way has yet to do to the guards
    gcall            \* the call under way, or the last one

guard_vars == <<borrowed, pending, gcall>>

VARIABLES
    list,            \* a LinkedList used on its own: [head]
    list_mem,        \* first word of every block linked into it
    pushed,          \* the addresses pushed and still in the list, the latest first
    llast            \* the last call on the list

list_vars == <<list, list_mem, pushed, llast>>

VARIABLES
    queue_frames,    \* QUEUE_FRAMES: the page numbers of the FrameTrackers it holds, in order
    dma_bufs,        \* the <<pa, pages>> dma_alloc returned and dma_dealloc was not yet called with
    dlast            \* the last call on the virtio HAL

dma_vars == <<queue_frames, dma_bufs, dlast>>

vars == <<heap_vars, frame_vars, addr_vars, range_vars, guard_vars, list_vars, dma_vars>>

\* what a call on one component leaves alone
not_heap_vars == <<frame_vars, addr_vars, range_vars, guard_vars, list_vars, dma_vars>>
not_frame_vars == <<heap_vars, addr_vars, range_vars, guard_vars, list_vars, dma_vars>>
not_addr_vars == <<heap_vars, frame_vars, range_vars, guard_vars, list_vars, dma_vars>>
not_range_vars == <<heap_vars, frame_vars, addr_vars, guard_vars, list_vars, dma_vars>>
not_guard_vars == <<heap_vars, frame_vars, addr_vars, range_vars, list_vars, dma_vars>>
not_list_vars == <<heap_vars, frame_vars, addr_vars, range_vars, guard_vars, dma_vars>>
\* the virtio HAL works on QUEUE_FRAMES and through the frame allocator
not_dma_vars == <<heap_vars, addr_vars, range_vars, guard_vars, list_vars>>

----------------------------------------------------------------------------
(* Bounds of the model *)

\* at most this many blocks are live at the same time
MaxLive == 2

\* number of allocations of the bulk-growth run
GrowthAllocs == 128

----------------------------------------------------------------------------
(* Program constants *)

\* size_of::<usize>() on the 64-bit target
WORD == 8

\* free_list: [LinkedList; 32]
NUM_CLASSES == 32

\* usize::BITS, the result of trailing_zeros(0)
USIZE_BITS == 64

\* Slab<_, 64>: blocks per bulk chunk
SET_SIZE == 64

\* alignment of the bulk chunk requested from the Buddy Heap
CHUNK_ALIGN == 4096

NULL == 0

\* stands for the address of a list's head field (IterMut.prev before the first node)
HEAD_SLOT == -1

\* y, with x computed first (the value is y either way): keeps the evaluation of
\* a long run of list operations in program order
After(x, y) == IF x = x THEN y ELSE y

Max(a, b) == IF a >= b THEN a ELSE b
Min(a, b) == IF a <= b THEN a ELSE b

----------------------------------------------------------------------------
(* Integer helpers of core used by the allocator *)

RECURSIVE NextPow2From(_, _)
NextPow2From(n, p) == IF p >= n THEN p ELSE NextPow2From(n, 2 * p)

\* usize::next_power_of_two: the smallest power of two >= n (1 for n = 0)
next_power_of_two(n) == NextPow2From(n, 1)

RECURSIVE TzFrom(_)
TzFrom(n) == IF n % 2 = 1 THEN 0 ELSE 1 + TzFrom(n \div 2)

\* usize::trailing_zeros
trailing_zeros(n) == IF n = 0 THEN USIZE_BITS ELSE TzFrom(n)

RECURSIVE Log2Floor(_)
Log2Floor(n) == IF n <= 1 THEN 0 ELSE 1 + Log2Floor(n \div 2)

\* prev_power_of_two: 1 << (usize::BITS - num.leading_zeros() - 1), for num > 0
prev_power_of_two(num) == 2 ^ Log2Floor(num)

\* x & (!x + 1): the lowest set bit of x (0 for x = 0)
\* (lowbit_top: the variant that gives the top bit of the width instead)
lowbit_top(x) == 2 ^ 30
lowbit(x) == IF x = 0 THEN 0 ELSE 2 ^ TzFrom(x)

\* x ^ (1 << k): bit k of x flipped
\* (BuddyOf_above: the variant that adds 1 << k)
BuddyOf_above(x, k) == x + 2 ^ k
BuddyOf(x, k) == IF (x \div (2 ^ k)) % 2 = 1 THEN x - 2 ^ k ELSE x + 2 ^ k

\* (x + size_of::<usize>() - 1) & (!size_of::<usize>() + 1)
\* (AlignUpWord_down: the variant that rounds down instead)
AlignUpWord_down(x) == (x \div WORD) * WORD
AlignUpWord(x) == ((x + WORD - 1) \div WORD) * WORD

\* x & (!size_of::<usize>() + 1)
AlignDownWord(x) == (x \div WORD) * WORD

----------------------------------------------------------------------------
(* linked_list.rs: the intrusive list.  Each operation takes the head and   *)
(* the memory and gives back the new head and memory.                      *)

Store(m, a, v) == (a :> v) @@ m

\* the word at a is no longer a link
Forget(m, a) == [x \in DOMAIN m \ {a} |-> m[x]] @@ <<>>

\* LinkedList::is_empty
is_empty(head) == head = NULL

\* LinkedList::push: *item = head; head = item
push(head, m, item) == [head |-> item, mem |-> Store(m, item, head)]

\* LinkedList::pop: None on an empty list, else item = head; head = *item
pop(head, m) ==
    IF is_empty(head)
    THEN [head |-> head, mem |-> m, item |-> NULL]
    ELSE [head |-> m[head], mem |-> Forget(m, head), item |-> head]

\* Iter::next, up to n times from curr: the items yielded
RECURSIVE iter_steps(_, _, _)
iter_steps(curr, m, n) ==
    IF n = 0 \/ curr = NULL
    THEN <<>>
    ELSE <<curr>> \o iter_steps(m[curr], m, n - 1)

\* LinkedList::iter: the addresses from the head on (a list has no more nodes
\* than there are links in memory)
iter(head, m) == iter_steps(head, m, Cardinality(DOMAIN m))

\* for block in iter_mut() { if block.value() == target { block.pop(); break } }
\* ListNode::pop stores *curr into *prev, prev being the head field or a node.
RECURSIVE remove_node(_, _, _, _, _)
remove_node(head, m, prev, curr, target) ==
    IF curr = NULL
    THEN [head |-> head, mem |-> m, found |-> FALSE]
    ELSE IF curr = target
         THEN IF prev = HEAD_SLOT
              THEN [head |-> m[curr], mem |-> Forget(m, curr), found |-> TRUE]
              ELSE [head |-> head, mem |-> Forget(Store(m, prev, m[curr]), curr),
                    found |-> TRUE]
         ELSE remove_node(head, m, curr, m[curr], target)

----------------------------------------------------------------------------
(* buddyheap.rs: Heap *)

Range(f) == {f[i] : i \in DOMAIN f}

Classes == 0 .. NUM_CLASSES - 1

\* Heap::new: 32 empty lists, counters 0
HeapNew ==
    [free_list |-> [k \in Classes |-> NULL], user |-> 0, allocated |-> 0, total |-> 0]

\* the free blocks of the heap as (address, class) pairs
FreeBlocks(fl, m) == UNION {{<<a, k>> : a \in Range(iter(fl[k], m))} : k \in Classes}

\* the while loop of Heap::add_to_heap; an index outside free_list aborts
RECURSIVE add_loop(_, _, _, _, _)
add_loop(fl, m, current_start, end, total) ==
    IF current_start + WORD <= end
    THEN LET size == Min(lowbit(current_start), prev_power_of_two(end - current_start))
             idx  == trailing_zeros(size)
         IN  IF idx >= NUM_CLASSES
             THEN [free_list |-> fl, mem |-> m, total |-> total, panic |-> TRUE]
             ELSE LET r == push(fl[idx], m, current_start)
                  IN  add_loop([fl EXCEPT ![idx] = r.head], r.mem,
                               current_start + size, end, total + size)
    ELSE [free_list |-> fl, mem |-> m, total |-> total, panic |-> FALSE]

\* Heap::add_to_heap (Heap::init calls it with end = start + size)
add_to_heap(h, m, start0, end0) ==
    LET start == AlignUpWord(start0)
        end   == AlignDownWord(end0)
    IN  IF ~(start <= end)
        THEN [heap |-> h, mem |-> m, panic |-> TRUE]
        ELSE LET r == add_loop(h.free_list, m, start, end, 0)
             IN  [heap  |-> [h EXCEPT !.free_list = r.free_list,
                                      !.total = h.total + r.total],
                  mem   |-> r.mem,
                  panic |-> r.panic]

\* max(layout.size().next_power_of_two(), max(layout.align(), size_of::<usize>()))
\* (alloc_size_min: the variant with min in place of the outer max)
alloc_size_min(layout) ==
    Min(next_power_of_two(layout.size), Max(layout.align, WORD))
alloc_size(layout) ==
    Max(next_power_of_two(layout.size), Max(layout.align, WORD))

\* for i in class..self.free_list.len(): the first i whose list is not empty,
\* NUM_CLASSES when there is none
\* (first_fit_above: the variant that starts the scan at class + 1)
first_fit_above(fl, class) ==
    IF \E i \in (class + 1) .. (NUM_CLASSES - 1) : ~is_empty(fl[i])
    THEN CHOOSE i \in (class + 1) .. (NUM_CLASSES - 1) :
            /\ ~is_empty(fl[i])
            /\ \A j \in (class + 1) .. (i - 1) : is_empty(fl[j])
    ELSE NUM_CLASSES
first_fit(fl, class) ==
    IF \E i \in class .. (NUM_CLASSES - 1) : ~is_empty(fl[i])
    THEN CHOOSE i \in class .. (NUM_CLASSES - 1) :
            /\ ~is_empty(fl[i])
            /\ \A j \in class .. (i - 1) : is_empty(fl[j])
    ELSE NUM_CLASSES

\* block as usize + (1 << (j - 1)): the upper half of a class-j block
\* (upper_half_whole: the variant that adds 1 << j)
upper_half_whole(block, j) == block + 2 ^ j
upper_half(block, j) == block + 2 ^ (j - 1)

\* for j in (class + 1..i + 1).rev(): pop a class-j block, push its upper half
\* and then the block itself onto list j - 1
RECURSIVE split(_, _, _, _)

\* one round of the loop, p being the result of free_list[j].pop()
split_round(fl, j, class, p) ==
    IF p.item = NULL
    THEN [free_list |-> fl, mem |-> p.mem, ok |-> FALSE]
    ELSE LET a == push(fl[j - 1], p.mem, upper_half(p.item, j))
             b == push(a.head, a.mem, p.item)
         IN  split([fl EXCEPT ![j] = p.head, ![j - 1] = b.head], b.mem, j - 1, class)

split(fl, m, j, class) ==
    IF j <= class
    THEN [free_list |-> fl, mem |-> m, ok |-> TRUE]
    ELSE split_round(fl, j, class, pop(fl[j], m))

\* what a successful Heap::alloc adds to the counters
\* (alloc_account_rounded: the variant that adds the rounded size to both)
alloc_account_rounded(h, layout, size) ==
    [h EXCEPT !.user = @ + size, !.allocated = @ + size]
alloc_account(h, layout, size) ==
    [h EXCEPT !.user = @ + layout.size, !.allocated = @ + size]

\* the end of Heap::alloc, p being the result of free_list[class].pop() on the
\* lists fl left by the split; the expect on an empty list aborts
\* (heap_alloc_take_keep: the variant that leaves the block on its list)
heap_alloc_take_keep(h, layout, size, class, fl, p) ==
    IF p.item = NULL
    THEN [heap |-> [h EXCEPT !.free_list = fl], mem |-> p.mem, ptr |-> NULL,
          class |-> class, panic |-> TRUE]
    ELSE [heap |-> alloc_account([h EXCEPT !.free_list = fl], layout, size),
          mem |-> Store(p.mem, p.item, p.head), ptr |-> p.item, class |-> class,
          panic |-> FALSE]
heap_alloc_take(h, layout, size, class, fl, p) ==
    IF p.item = NULL
    THEN [heap |-> [h EXCEPT !.free_list = fl], mem |-> p.mem, ptr |-> NULL,
          class |-> class, panic |-> TRUE]
    ELSE [heap |-> alloc_account([h EXCEPT !.free_list = [fl EXCEPT ![class] = p.head]],
                                 layout, size),
          mem |-> p.mem, ptr |-> p.item, class |-> class, panic |-> FALSE]

\* Heap::alloc after the split loop, s being what the loop left
heap_alloc_split(h, layout, size, class, s) ==
    IF ~s.ok
    THEN [heap |-> [h EXCEPT !.free_list = s.free_list], mem |-> s.mem,
          ptr |-> NULL, class |-> class, panic |-> FALSE]
    ELSE heap_alloc_take(h, layout, size, class, s.free_list,
                         pop(s.free_list[class], s.mem))

\* Heap::alloc; ptr = NULL stands for Err(()), panic for the failed expect on an
\* empty list of the required class
heap_alloc(h, m, layout) ==
    LET size  == alloc_size(layout)
        class == trailing_zeros(size)
        i     == first_fit(h.free_list, class)
    IN  IF i >= NUM_CLASSES
        THEN [heap |-> h, mem |-> m, ptr |-> NULL, class |-> class, panic |-> FALSE]
        ELSE heap_alloc_split(h, layout, size, class, split(h.free_list, m, i, class))

\* min(current_ptr, buddy): the base of the merged block
\* (merged_base_max: the variant that takes the higher of the two)
merged_base_max(current_ptr, buddy) == Max(current_ptr, buddy)
merged_base(current_ptr, buddy) == Min(current_ptr, buddy)

\* the coalescing loop of Heap::dealloc; pushing onto free_list[32] aborts
\* (coalesce_none, below: the variant that never merges)
RECURSIVE coalesce(_, _, _, _)

\* the buddy was found and unlinked: p is the result of free_list[class].pop(),
\* which takes current_ptr; the merged block np goes onto the next list
coalesce_merge(fl, current_class, np, p) ==
    IF current_class + 1 >= NUM_CLASSES
    THEN [free_list |-> [fl EXCEPT ![current_class] = p.head], mem |-> p.mem,
          panic |-> TRUE]
    ELSE LET q == push(fl[current_class + 1], p.mem, np)
         IN  coalesce([fl EXCEPT ![current_class] = p.head,
                                 ![current_class + 1] = q.head],
                      q.mem, np, current_class + 1)

\* one round of the loop, r being the result of the search for the buddy
coalesce_round(fl, m, current_ptr, current_class, buddy, r) ==
    IF r.found
    THEN coalesce_merge(fl, current_class, merged_base(current_ptr, buddy),
                        pop(r.head, r.mem))
    ELSE [free_list |-> fl, mem |-> m, panic |-> FALSE]

coalesce_none(fl, m, current_ptr, current_class) ==
    [free_list |-> fl, mem |-> m, panic |-> FALSE]
coalesce(fl, m, current_ptr, current_class) ==
    IF ~(current_class < NUM_CLASSES)
    THEN [free_list |-> fl, mem |-> m, panic |-> FALSE]
    ELSE coalesce_round(fl, m, current_ptr, current_class,
                        BuddyOf(current_ptr, current_class),
                        remove_node(fl[current_class], m, HEAD_SLOT, fl[current_class],
                                    BuddyOf(current_ptr, current_class)))

\* the end of Heap::dealloc, c being what the coalescing loop left
\* (heap_dealloc_done_user_only: the variant that leaves `allocated` as it was)
heap_dealloc_done_user_only(h, layout, size, c) ==
    [heap |-> [h EXCEPT !.free_list = c.free_list, !.user = @ - layout.size],
     mem |-> c.mem, panic |-> c.panic]
heap_dealloc_done(h, layout, size, c) ==
    IF c.panic
    THEN [heap |-> [h EXCEPT !.free_list = c.free_list], mem |-> c.mem, panic |-> TRUE]
    ELSE [heap |-> [h EXCEPT !.free_list = c.free_list,
                             !.user = @ - layout.size,
                             !.allocated = @ - size],
          mem |-> c.mem, panic |-> FALSE]

\* Heap::dealloc
heap_dealloc(h, m, ptr, layout) ==
    LET size  == alloc_size(layout)
        class == trailing_zeros(size)
        a     == push(h.free_list[class], m, ptr)
    IN  IF class >= NUM_CLASSES
        THEN [heap |-> h, mem |-> m, panic |-> TRUE]
        ELSE heap_dealloc_done(h, layout, size,
                 coalesce([h.free_list EXCEPT ![class] = a.head], a.mem, ptr, class))

----------------------------------------------------------------------------
(* The calls made on a Heap used on its own (BuddyAllocator) *)

Layout(size, align) == [size |-> size, align |-> align]

\* the backing regions <<start, size>> tried for init
Regions ==
    { <<4096, 8192>>,      \* [0x1000, 0x3000): two 4096-byte blocks
      <<8192, 8192>>,      \* [0x2000, 0x4000): one 8192-byte block
      <<4099, 50>>,        \* unaligned at both ends: blocks of 8, 16 and 16 bytes
      <<4152, 72>>,        \* blocks of 8 and 64 bytes
      <<4101, 2>> }        \* no whole word inside: start rounds above end

\* the layouts requested of the Heap
BuddyLayouts ==
    { Layout(0, 1), Layout(9, 8), Layout(8, 64), Layout(100, 8),
      Layout(4096, 4096), Layout(4097, 8), Layout(9000, 8) }

\* The record of a call: op, the layout given, the pointer given or returned,
\* ret ("ok", "err" for a failure value, "panic" for an abort), the class the
\* call computed, the requests it made of the Buddy Heap, and seq: how many
\* calls came before it since init if all of them were allocs that returned a
\* block, else -1.
NoCall == [op |-> "none", size |-> 0, align |-> 1, ptr |-> NULL, ret |-> "ok",
           class |-> 0, reqs |-> 0, seq |-> -1]

Call(op, layout, ptr, ret, class, reqs) ==
    [op |-> op, size |-> layout.size, align |-> layout.align, ptr |-> ptr,
     ret |-> ret, class |-> class, reqs |-> reqs, seq |-> streak]

Outcome(ptr, panic) == IF panic THEN "panic" ELSE IF ptr = NULL THEN "err" ELSE "ok"

\* streak after an alloc that gave `ret`
NextStreak(ret) == IF streak >= 0 /\ ret = "ok" THEN streak + 1 ELSE -1

SlabSizes == {64, 128, 256, 512, 1024, 2048, 4096}

\* Slab::new(0, 0): an empty list, no blocks
SlabNew == [head |-> NULL, total_blocks |-> 0]

\* StackFrameAllocator::new
StackFrameAllocatorNew == [current |-> 0, end |-> 0, recycled |-> <<>>]

\* no call on the frame allocator yet
NoFrameCall == [op |-> "none", arg |-> 0, pages |-> <<>>, ret |-> "ok", seq |-> -1,
                cleaned |-> 0]

\* the frame allocator before init_frame_allocator: no frame handed out, memory
\* all 0
FrameState0 ==
    /\ frame_allocator = StackFrameAllocatorNew
    /\ held = <<>>
    /\ issued = {}
    /\ page_mem = <<>>
    /\ fphase = "new"
    /\ frange = <<0, 0>>
    /\ flast = NoFrameCall

\* no conversion made yet
NoConv == [op |-> "none", arg |-> 0, out |-> 0, panic |-> FALSE, spins |-> 0,
           wrapped |-> FALSE]

AddrState0 ==
    /\ addr = [type |-> "usize", value |-> 0]
    /\ conv = NoConv

\* no SimpleRange constructed, no iterator made
NoRange == [state |-> "none", l |-> 0, r |-> 0]
NoRangeIter == [state |-> "none", current |-> 0, end |-> 0, yielded |-> <<>>]
NoRangeCall == [op |-> "none", a |-> 0, b |-> 0, ret |-> "ok", nones |-> 0, calls |-> 0]

RangeState0 ==
    /\ range = NoRange
    /\ range_iter = NoRangeIter
    /\ rlast = NoRangeCall

\* no guard held, no call under way
NoGuardCall == [op |-> "none", arg |-> 0, ret |-> "ok", n |-> 0]

GuardState0 ==
    /\ borrowed = {}
    /\ pending = <<>>
    /\ gcall = NoGuardCall

\* LinkedList::new: an empty list, no call made yet
NoListCall == [op |-> "none", arg |-> NULL, ret |-> NULL]

ListState0 ==
    /\ list = [head |-> NULL]
    /\ list_mem = <<>>
    /\ pushed = <<>>
    /\ llast = NoListCall

\* QUEUE_FRAMES as created: Vec::new(); no call made yet
NoDmaCall == [op |-> "none", pa |-> 0, pages |-> 0, frames |-> <<>>, ret |-> "ok"]

DmaState0 ==
    /\ queue_frames = <<>>
    /\ dma_bufs = {}
    /\ dlast = NoDmaCall

HeapState0 ==
    /\ buddy_heap = HeapNew
    /\ slabs = [c \in SlabSizes |-> SlabNew]
    /\ slab_used = 0
    /\ slab_allocated = 0
    /\ mem = <<>>
    /\ phase = "new"
    /\ region = <<0, 0>>
    /\ init_blocks = {}
    /\ live = {}
    /\ streak = 0
    /\ last = NoCall

Init ==
    /\ HeapState0 /\ FrameState0 /\ AddrState0 /\ RangeState0 /\ GuardState0
    /\ ListState0 /\ DmaState0

\* BuddyAllocator::init: Heap::new, then Heap::init(start, size)
HeapInit(start, size) ==
    /\ phase = "new"
    /\ LET r == add_to_heap(HeapNew, mem, start, start + size)
       IN  /\ buddy_heap' = r.heap
           /\ mem' = r.mem
           /\ phase' = IF r.panic THEN "panicked" ELSE "ready"
           /\ init_blocks' = FreeBlocks(r.heap.free_list, r.mem)
           /\ last' = Call("init", Layout(0, 1), NULL, IF r.panic THEN "panic" ELSE "ok", 0, 0)
    /\ region' = <<start, size>>
    /\ streak' = 0
    /\ UNCHANGED <<slabs, slab_used, slab_allocated, live>>
    /\ UNCHANGED not_heap_vars

\* Heap::alloc(layout)
HeapAlloc(layout) ==
    /\ phase = "ready"
    /\ Cardinality(live) < MaxLive
    /\ \E r \in {heap_alloc(buddy_heap, mem, layout)} :
          /\ buddy_heap' = r.heap
          /\ mem' = r.mem
          /\ live' = IF r.ptr = NULL THEN live
                     ELSE live \cup {[ptr |-> r.ptr, size |-> layout.size,
                                      align |-> layout.align]}
          /\ last' = Call("alloc", layout, r.ptr, Outcome(r.ptr, r.panic), r.class, 0)
          /\ streak' = NextStreak(Outcome(r.ptr, r.panic))
          /\ phase' = IF r.panic THEN "panicked" ELSE phase
    /\ UNCHANGED <<slabs, slab_used, slab_allocated, region, init_blocks>>
    /\ UNCHANGED not_heap_vars

\* Heap::dealloc(ptr, layout) of a live block with the layout it was allocated with
HeapDealloc(b) ==
    /\ phase = "ready"
    /\ b \in live
    /\ \E r \in {heap_dealloc(buddy_heap, mem, b.ptr, Layout(b.size, b.align))} :
          /\ buddy_heap' = r.heap
          /\ mem' = r.mem
          /\ phase' = IF r.panic THEN "panicked" ELSE phase
          /\ last' = Call("dealloc", Layout(b.size, b.align), b.ptr,
                          IF r.panic THEN "panic" ELSE "ok", 0, 0)
    /\ live' = live \ {b}
    /\ streak' = -1
    /\ UNCHANGED <<slabs, slab_used, slab_allocated, region, init_blocks>>
    /\ UNCHANGED not_heap_vars

HeapInitStep == \E r \in Regions : HeapInit(r[1], r[2])
HeapAllocStep == \E l \in BuddyLayouts : HeapAlloc(l)
HeapDeallocStep == \E b \in live : HeapDealloc(b)

NextBuddy == HeapInitStep \/ HeapAllocStep \/ HeapDeallocStep

SpecBuddy == Init /\ [][NextBuddy]_vars

----------------------------------------------------------------------------
(* slab.rs: Slab, FreeBlockList, Slabheap.  A slab class is named by its    *)
(* block size; BUDDY_HEAP names the requests that are not slabbed.         *)
(* FreeBlockList.len is only ever incremented and never read; it is not    *)
(* part of the state here.                                                 *)

\* BlockSize::BuddyHeap
BUDDY_HEAP == 0

\* Layout::find_suitable_slab
\* (find_suitable_slab_exclusive: the variant with exclusive upper bounds)
find_suitable_slab_exclusive(layout) ==
    IF layout.size < 64 THEN 64
    ELSE IF layout.size < 128 THEN 128
    ELSE IF layout.size < 256 THEN 256
    ELSE IF layout.size < 512 THEN 512
    ELSE IF layout.size < 1024 THEN 1024
    ELSE IF layout.size < 2048 THEN 2048
    ELSE IF layout.size < 4096 THEN 4096
    ELSE BUDDY_HEAP
find_suitable_slab(layout) ==
    IF layout.size <= 64 THEN 64
    ELSE IF layout.size <= 128 THEN 128
    ELSE IF layout.size <= 256 THEN 256
    ELSE IF layout.size <= 512 THEN 512
    ELSE IF layout.size <= 1024 THEN 1024
    ELSE IF layout.size <= 2048 THEN 2048
    ELSE IF layout.size <= 4096 THEN 4096
    ELSE BUDDY_HEAP

\* FreeBlockList::new: for i in (lo..hi).rev() push start_addr + i * block_size.
\* The pushes of lo..hi are those of mid..hi followed by those of lo..mid.
RECURSIVE push_blocks(_, _, _, _, _, _)
push_blocks(head, m, start_addr, block_size, lo, hi) ==
    IF hi <= lo
    THEN [head |-> head, mem |-> m]
    ELSE IF hi = lo + 1
         THEN push(head, m, start_addr + lo * block_size)
         ELSE LET mid == (lo + hi) \div 2
                  a == push_blocks(head, m, start_addr, block_size, mid, hi)
              IN  After(a.head, push_blocks(a.head, a.mem, start_addr, block_size, lo, mid))

\* (block_list_new_from_one: the variant whose loop leaves out block 0)
block_list_new_from_one(m, start_addr, block_size, num_of_blocks) ==
    push_blocks(NULL, m, start_addr, block_size, 1, num_of_blocks)
block_list_new(m, start_addr, block_size, num_of_blocks) ==
    push_blocks(NULL, m, start_addr, block_size, 0, num_of_blocks)

\* n rounds of: while let Some(block) = block_list.pop() { self.free_block_list.push(block) }
\* (a round on an empty block_list does nothing), as two runs of half the length
RECURSIVE drain(_, _, _, _)
drain(src, dst, m, n) ==
    IF n = 0 \/ src = NULL
    THEN [src |-> src, head |-> dst, mem |-> m]
    ELSE IF n = 1
         THEN LET p == pop(src, m)
                  q == push(dst, p.mem, p.item)
              IN  [src |-> p.head, head |-> q.head, mem |-> q.mem]
         ELSE LET a == drain(src, dst, m, n \div 2)
              IN  After(a.head, drain(a.src, a.head, a.mem, n - n \div 2))

\* Slab::grow(start_addr, slab_size); block_list holds num_of_blocks blocks, so
\* the loop ends after that many rounds
\* (slab_grow_single: the variant that takes one block of the chunk)
slab_grow_single(slab, m, start_addr, slab_size, BLK_SIZE) ==
    LET block_list == block_list_new(m, start_addr, BLK_SIZE, 1)
        d == drain(block_list.head, slab.head, block_list.mem, 1)
    IN  [slab |-> [head |-> d.head, total_blocks |-> slab.total_blocks + 1],
         mem  |-> d.mem]
slab_grow(slab, m, start_addr, slab_size, BLK_SIZE) ==
    LET num_of_blocks == slab_size \div BLK_SIZE
        block_list == block_list_new(m, start_addr, BLK_SIZE, num_of_blocks)
        d == drain(block_list.head, slab.head, block_list.mem, num_of_blocks)
    IN  [slab |-> [head |-> d.head, total_blocks |-> slab.total_blocks + num_of_blocks],
         mem  |-> d.mem]

\* Slab::allocate after grow: Ok(self.free_block_list.pop().unwrap())
slab_allocate_grown(g, heap) ==
    LET q == pop(g.slab.head, g.mem)
    IN  [slab |-> [g.slab EXCEPT !.head = q.head], heap |-> heap, mem |-> q.mem,
         ptr |-> q.item, reqs |-> 1, panic |-> q.item = NULL]

\* Slab::allocate on an empty list, a being the result of buddy.alloc(layout)
slab_allocate_refill(slab, a, BLK_SIZE) ==
    IF a.ptr # NULL
    THEN slab_allocate_grown(
             slab_grow(slab, a.mem, a.ptr, SET_SIZE * BLK_SIZE, BLK_SIZE), a.heap)
    ELSE [slab |-> slab, heap |-> a.heap, mem |-> a.mem, ptr |-> NULL,
          reqs |-> 1, panic |-> a.panic]

\* Slab::allocate; ptr = NULL stands for Err(AllocError), reqs counts the calls
\* of buddy.alloc
slab_allocate(slab, heap, m, BLK_SIZE) ==
    LET p == pop(slab.head, m)
    IN  IF p.item # NULL
        THEN [slab |-> [slab EXCEPT !.head = p.head], heap |-> heap, mem |-> p.mem,
              ptr |-> p.item, reqs |-> 0, panic |-> FALSE]
        ELSE slab_allocate_refill(
                 slab, heap_alloc(heap, m, Layout(SET_SIZE * BLK_SIZE, CHUNK_ALIGN)),
                 BLK_SIZE)

\* Slab::deallocate: the block goes back on the class list
\* (slab_deallocate_to_buddy: the variant that hands it to the Buddy Heap)
slab_deallocate_to_buddy(slab, heap, m, ptr, BLK_SIZE) ==
    LET d == heap_dealloc(heap, m, ptr, Layout(BLK_SIZE, WORD))
    IN  [slab |-> slab, heap |-> d.heap, mem |-> d.mem]
slab_deallocate(slab, heap, m, ptr, BLK_SIZE) ==
    LET r == push(slab.head, m, ptr)
    IN  [slab |-> [slab EXCEPT !.head = r.head], heap |-> heap, mem |-> r.mem]

\* self.allocated += <class size>, or layout.size() for a request that is not slabbed
slab_account(layout, class) == IF class = BUDDY_HEAP THEN layout.size ELSE class

\* the free blocks of a slab class
SlabBlocks(c) == Range(iter(slabs[c].head, mem))

----------------------------------------------------------------------------
(* The calls made on the Slab allocator, the process-wide heap *)

\* the backing regions <<start, size>> tried for init_heap
SlabRegions ==
    { <<4096, 8192>>,      \* [0x1000, 0x3000): two 4096-byte blocks
      <<8192, 8192>>,      \* [0x2000, 0x4000): one 8192-byte block
      <<8195, 8192>>,      \* unaligned start: blocks of 8 .. 2048 bytes and one of 4096
      <<8192, 16384>> }    \* [0x2000, 0x6000): two 8192-byte blocks

\* the layouts requested of the Slab allocator
SlabLayouts ==
    { Layout(0, 1), Layout(64, 8), Layout(65, 8), Layout(100, 8), Layout(128, 8),
      Layout(129, 8), Layout(256, 8), Layout(257, 8), Layout(512, 8), Layout(513, 8),
      Layout(1024, 8), Layout(1025, 8), Layout(2048, 8), Layout(2049, 8),
      Layout(4096, 4096), Layout(4097, 8), Layout(8192, 8), Layout(8193, 8) }

\* init_heap / SlabAllocator::init: Slabheap::new, then Slabheap::init(start, size)
SlabInit(start, size) ==
    /\ phase = "new"
    /\ LET r == add_to_heap(HeapNew, mem, start, start + size)
       IN  /\ buddy_heap' = r.heap
           /\ mem' = r.mem
           /\ phase' = IF r.panic THEN "panicked" ELSE "ready"
           /\ init_blocks' = FreeBlocks(r.heap.free_list, r.mem)
           /\ last' = Call("init", Layout(0, 1), NULL, IF r.panic THEN "panic" ELSE "ok", 0, 0)
    /\ slabs' = [c \in SlabSizes |-> SlabNew]
    /\ slab_used' = 0
    /\ slab_allocated' = 0
    /\ region' = <<start, size>>
    /\ streak' = 0
    /\ UNCHANGED live
    /\ UNCHANGED not_heap_vars

\* the arm of a slab class in Slabheap::alloc or dealloc, r being the result of
\* Slab::allocate or deallocate; the unwrap of an Err aborts
slab_arm(sl, class, r) ==
    [slabs |-> [sl EXCEPT ![class] = r.slab], heap |-> r.heap, mem |-> r.mem,
     ptr |-> r.ptr, class |-> class, reqs |-> r.reqs,
     panic |-> r.ptr = NULL \/ r.panic]

\* the last arm of Slabheap::alloc or dealloc, r being the result of
\* buddy_heap.alloc or dealloc; the unwrap of an Err aborts
buddy_arm(sl, r) ==
    [slabs |-> sl, heap |-> r.heap, mem |-> r.mem, ptr |-> r.ptr,
     class |-> BUDDY_HEAP, reqs |-> 1, panic |-> r.ptr = NULL \/ r.panic]

\* the match of Slabheap::alloc
slabheap_alloc(sl, heap, m, layout) ==
    LET class == find_suitable_slab(layout)
    IN  IF class # BUDDY_HEAP
        THEN slab_arm(sl, class, slab_allocate(sl[class], heap, m, class))
        ELSE buddy_arm(sl, heap_alloc(heap, m, layout))

\* the match of Slabheap::dealloc
slabheap_dealloc(sl, heap, m, ptr, layout) ==
    LET class == find_suitable_slab(layout)
    IN  IF class # BUDDY_HEAP
        THEN slab_arm(sl, class,
                 slab_deallocate(sl[class], heap, m, ptr, class)
                     @@ [ptr |-> ptr, reqs |-> 0, panic |-> FALSE])
        ELSE buddy_arm(sl, heap_dealloc(heap, m, ptr, layout) @@ [ptr |-> ptr])

\* GlobalAlloc for SlabAllocator::alloc -> Slabheap::alloc(layout): the counters
\* are raised first, then the match; an Err anywhere below is unwrapped
SlabAllocCall(layout) ==
    /\ phase = "ready"
    /\ slab_used' = slab_used + layout.size
    /\ slab_allocated' = slab_allocated + slab_account(layout, find_suitable_slab(layout))
    /\ \E r \in {slabheap_alloc(slabs, buddy_heap, mem, layout)} :
          /\ slabs' = r.slabs
          /\ buddy_heap' = r.heap
          /\ mem' = r.mem
          /\ phase' = IF r.panic THEN "panicked" ELSE phase
          /\ live' = IF r.panic THEN live
                     ELSE live \cup {[ptr |-> r.ptr, size |-> layout.size,
                                      align |-> layout.align]}
          /\ last' = Call("alloc", layout, r.ptr, IF r.panic THEN "panic" ELSE "ok",
                          r.class, r.reqs)
          /\ streak' = NextStreak(IF r.panic THEN "panic" ELSE "ok")
    /\ UNCHANGED <<region, init_blocks>>
    /\ UNCHANGED not_heap_vars

\* an alloc while fewer than MaxLive blocks are live
SlabAlloc(layout) ==
    /\ Cardinality(live) < MaxLive
    /\ SlabAllocCall(layout)

\* GlobalAlloc for SlabAllocator::dealloc -> Slabheap::dealloc(ptr, layout) of a
\* live block with the layout it was allocated with
SlabDealloc(b) ==
    /\ phase = "ready"
    /\ b \in live
    /\ slab_used' = slab_used - b.size
    /\ slab_allocated' = slab_allocated
            - slab_account(Layout(b.size, b.align), find_suitable_slab(Layout(b.size, b.align)))
    /\ \E r \in {slabheap_dealloc(slabs, buddy_heap, mem, b.ptr, Layout(b.size, b.align))} :
          /\ slabs' = r.slabs
          /\ buddy_heap' = r.heap
          /\ mem' = r.mem
          /\ phase' = IF r.panic THEN "panicked" ELSE phase
          /\ last' = Call("dealloc", Layout(b.size, b.align), b.ptr,
                          IF r.panic THEN "panic" ELSE "ok", r.class, 0)
    /\ live' = live \ {b}
    /\ streak' = -1
    /\ UNCHANGED <<region, init_blocks>>
    /\ UNCHANGED not_heap_vars

SlabInitStep == \E r \in SlabRegions : SlabInit(r[1], r[2])
SlabAllocStep == \E l \in SlabLayouts : SlabAlloc(l)
SlabDeallocStep == \E b \in live : SlabDealloc(b)

NextSlab == SlabInitStep \/ SlabAllocStep \/ SlabDeallocStep

SpecSlab == Init /\ [][NextSlab]_vars

----------------------------------------------------------------------------
(* A run of allocations in the 64-byte class with no dealloc in between:    *)
(* init, then up to GrowthAllocs allocs of one layout                      *)

\* layouts of the 64-byte class
GrowthLayouts == { Layout(0, 1), Layout(1, 1), Layout(64, 8) }

\* the next alloc of the run: every alloc so far returned a block, and all of
\* them asked for the same layout
GrowthAlloc(layout) ==
    /\ streak >= 0
    /\ streak < GrowthAllocs
    /\ \A b \in live : b.size = layout.size /\ b.align = layout.align
    /\ SlabAllocCall(layout)

GrowthAllocStep == \E l \in GrowthLayouts : GrowthAlloc(l)

NextGrowth == SlabInitStep \/ GrowthAllocStep

SpecGrowth == Init /\ [][NextGrowth]_vars

----------------------------------------------------------------------------
(* Claims about the Buddy Heap, checked under SpecBuddy *)

\* [ptr, ptr + size) lies inside the region given to init
InRegion(ptr, size) == region[1] <= ptr /\ ptr + size <= region[1] + region[2]

\* the order of the smallest power of two >= max(size, align, 8)
RequiredClass(size, align) ==
    CHOOSE c \in 0 .. 30 :
        /\ 2 ^ c >= Max(size, Max(align, 8))
        /\ c > 0 => 2 ^ (c - 1) < Max(size, Max(align, 8))

\* C1: after init, one alloc that returns a block followed by the matching
\* dealloc leaves the free lists holding exactly the (address, class) blocks they
\* held right after init.
C1_NoLeak ==
    (last.op = "dealloc" /\ last.seq = 1) =>
        /\ last.ret = "ok"
        /\ FreeBlocks(buddy_heap.free_list, mem) = init_blocks

\* C1 witness: the first alloc had to split a larger block, and was given back.
C1_Witness ==
    /\ last.op = "dealloc" /\ last.seq = 1
    /\ \E b \in init_blocks : b[1] = last.ptr /\ b[2] > RequiredClass(last.size, last.align)
    /\ FreeBlocks(buddy_heap.free_list, mem) = init_blocks

\* C2: an alloc of a layout larger than the total capacity returns the failure
\* value, changes no free list and no counter, and every layout that could be
\* allocated before the call can still be allocated after it.
C2_Exhaustion ==
    [][(last'.op = "alloc" /\ last'.size > buddy_heap.total) =>
          /\ last'.ret = "err"
          /\ buddy_heap' = buddy_heap
          /\ mem' = mem
          /\ \A l \in BuddyLayouts :
                heap_alloc(buddy_heap, mem, l).ptr # NULL
                    => heap_alloc(buddy_heap', mem', l).ptr # NULL]_vars

\* C2 witness: a too-large alloc failed on a heap that can still serve a small one.
C2_Witness ==
    /\ last.op = "alloc" /\ last.ret = "err"
    /\ buddy_heap.total > 0 /\ last.size > buddy_heap.total
    /\ heap_alloc(buddy_heap, mem, Layout(8, 8)).ptr # NULL

\* C3: alloc uses class c = log2 of the smallest power of two >= max(size,
\* align, 8); it returns a block iff one of the lists c..31 is non-empty before
\* the call and returns Err iff all of them are empty.
C3_AllocClass ==
    [][last'.op = "alloc" =>
          LET c == RequiredClass(last'.size, last'.align)
              some == \E k \in c .. (NUM_CLASSES - 1) : buddy_heap.free_list[k] # NULL
          IN  /\ last'.class = c
              /\ last'.ret \in {"ok", "err"}
              /\ last'.ret = "ok" <=> some
              /\ last'.ret = "ok" <=> last'.ptr # NULL]_vars

\* C3 witness: a block was returned although the list of the required class was
\* empty before; and (second conjunct, the other case) the heap holds free
\* blocks, all of them too small for the failed request.
C3_Witness ==
    /\ last.op = "alloc" /\ last.ret = "ok" /\ last.align > last.size
    /\ \E b \in init_blocks : b[1] = last.ptr /\ b[2] > last.class

C3_WitnessErr ==
    /\ last.op = "alloc" /\ last.ret = "err"
    /\ \E k \in Classes : k < last.class /\ buddy_heap.free_list[k] # NULL

\* C8: over [0x1000, 0x3000) the first call alloc(size 100, align 8) uses class 7
\* (128 bytes), returns a block inside the region, and leaves user = 100 and
\* allocated = 128.
C8_Scenario ==
    (region = <<4096, 8192>> /\ last.op = "alloc" /\ last.seq = 0
        /\ last.size = 100 /\ last.align = 8) =>
        /\ last.class = 7
        /\ last.ret = "ok"
        /\ 4096 <= last.ptr /\ last.ptr < 12288
        /\ buddy_heap.user = 100
        /\ buddy_heap.allocated = 128

C8_Witness ==
    /\ region = <<4096, 8192>> /\ last.op = "alloc" /\ last.seq = 0
    /\ last.size = 100 /\ last.align = 8 /\ last.ret = "ok"
    /\ buddy_heap.allocated = 128

----------------------------------------------------------------------------
(* Claims about the Slab allocator, checked under SpecSlab and SpecGrowth *)

\* the class of a size by the table of inclusive upper bounds; BUDDY_HEAP above 4096
ClassOf(size) ==
    IF size > 4096
    THEN BUDDY_HEAP
    ELSE CHOOSE c \in SlabSizes : size <= c /\ \A d \in SlabSizes : size <= d => c <= d

\* C4: the class of a request is given by its size alone, with inclusive upper
\* bounds 64, 128, ..., 4096 (size 0 goes to the 64-byte class); a request of the
\* class touches no other class list; a request of more than 4096 bytes touches
\* no class list and is passed to the Buddy Heap as it is, on alloc and dealloc.
C4_ClassSelection ==
    [][(last'.op \in {"alloc", "dealloc"} /\ phase = "ready") =>
          LET layout == Layout(last'.size, last'.align)
              c == ClassOf(last'.size)
          IN  /\ last'.class = c
              /\ \A d \in SlabSizes \ {c} : slabs'[d] = slabs[d]
              /\ (c = BUDDY_HEAP /\ last'.op = "alloc") =>
                    /\ last'.reqs = 1
                    /\ buddy_heap' = heap_alloc(buddy_heap, mem, layout).heap
                    /\ last'.ptr = heap_alloc(buddy_heap, mem, layout).ptr
              /\ (c = BUDDY_HEAP /\ last'.op = "dealloc") =>
                    buddy_heap' = heap_dealloc(buddy_heap, mem, last'.ptr, layout).heap]_vars

\* C4 witness: a 64-byte request was served from the 64-byte class while a block
\* of more than 4096 bytes, served by the Buddy Heap, is live.
C4_Witness ==
    /\ last.op = "alloc" /\ last.size = 64 /\ last.class = 64 /\ last.ret = "ok"
    /\ \E b \in live : b.size > 4096
    /\ slabs[64].total_blocks = SET_SIZE

\* C5: in a run of allocs of the 64-byte class from an empty class with no
\* dealloc, the N-th alloc (N = 1 .. GrowthAllocs) makes exactly one request of
\* the Buddy Heap when N mod 64 = 1 and none otherwise.
C5_BulkGrowth ==
    (last.op = "alloc" /\ last.seq >= 0 /\ last.class = 64) =>
        last.reqs = (IF (last.seq + 1) % 64 = 1 THEN 1 ELSE 0)

\* C5 witness: the 128th alloc of the run was served without a request, from the
\* second chunk.
C5_Witness ==
    /\ last.op = "alloc" /\ last.seq = 127 /\ last.ret = "ok" /\ last.reqs = 0
    /\ slabs[64].total_blocks = 2 * SET_SIZE
    /\ Cardinality(live) = 128

\* C6: an alloc of the Slab allocator that gets no block hands the failure
\* value to its caller and the allocator stays usable.
C6_Recoverable ==
    (last.op = "alloc" /\ last.ptr = NULL) => (last.ret = "err" /\ phase = "ready")

\* the blocks a slab class holds: those on its list and those handed out
Owned(sl, m, lv, c) ==
    Range(iter(sl[c].head, m)) \cup {b.ptr : b \in {x \in lv : ClassOf(x.size) = c}}

\* C7: a dealloc of a layout of at most 4096 bytes puts the block at the head
\* of its class list and leaves the Buddy Heap (its 32 lists and its counters)
\* as it was; over any step the blocks held by a class and its total_blocks
\* never shrink (a step that changes neither the class, nor the links, nor the
\* live blocks leaves the blocks held as they were).
C7_NeverReturned ==
    [][phase = "ready" =>
          /\ (last'.op = "dealloc" /\ last'.size <= 4096) =>
                /\ last'.ret = "ok"
                /\ slabs'[ClassOf(last'.size)].head = last'.ptr
                /\ buddy_heap' = buddy_heap
                /\ FreeBlocks(buddy_heap'.free_list, mem')
                       = FreeBlocks(buddy_heap.free_list, mem)
          /\ \A c \in SlabSizes :
                /\ \/ slabs'[c] = slabs[c] /\ mem' = mem /\ live' = live
                   \/ Owned(slabs, mem, live, c) \subseteq Owned(slabs', mem', live', c)
                /\ slabs'[c].total_blocks >= slabs[c].total_blocks]_vars

\* C7 witness: a block of a grown class was given back and is on the class
\* list again, which holds the whole chunk.
C7_Witness ==
    /\ last.op = "dealloc" /\ last.size <= 4096 /\ last.ret = "ok"
    /\ slabs[last.class].head = last.ptr
    /\ Cardinality(SlabBlocks(last.class)) = SET_SIZE
    /\ buddy_heap.allocated = SET_SIZE * last.class

\* C9: over [0x1000, 0x1000 + 8192) the first call alloc(size 100, align 8) of
\* the Slab allocator selects the 128-byte class, returns a block inside
\* [0x1000, 0x3000), and leaves used = 100 and allocated = 128.
C9_Scenario ==
    (region = <<4096, 8192>> /\ last.op = "alloc" /\ last.seq = 0
        /\ last.size = 100 /\ last.align = 8) =>
        /\ last.class = 128
        /\ last.ret = "ok"
        /\ 4096 <= last.ptr /\ last.ptr < 12288
        /\ slab_used = 100
        /\ slab_allocated = 128

\* the bytes of a live block: the block of its class, or the power of two the
\* Buddy Heap rounds a larger request to
Extent(b) ==
    IF ClassOf(b.size) # BUDDY_HEAP
    THEN ClassOf(b.size)
    ELSE 2 ^ RequiredClass(b.size, b.align)

\* C10: every block returned by alloc and not yet given back lies entirely
\* inside the region [start, start + size) given to init.
C10_Containment ==
    \A b \in live : InRegion(b.ptr, Extent(b))

\* C10 witness: two blocks are live and one of them ends exactly at the end of
\* the region.
C10_Witness ==
    /\ Cardinality(live) = 2
    /\ \E b \in live : b.ptr + Extent(b) = region[1] + region[2]


(***************************************************************************)
(* Frame allocator (mm/frame_allocator.rs)                                 *)
(***************************************************************************)

\* bounds of the frame allocator's inputs
MaxRecycled == 2        \* dealloc is called while fewer pages than this are recycled
MaxContig == 4          \* alloc_contig(num) is called with num in 0..MaxContig
MaxDirty == 2           \* bytes written by the owners of frames, over all pages

\* Option::None of alloc
NONE == -1

\* the length of the slice get_bytes_array gives
PAGE_BYTES == 4096

\* From<usize> for PhysPageNum: Self(v). Its assert holds for every v below
\* 2^PPN_WIDTH_SV39, so for every page number of this model.
PhysPageNum_from_usize(v) == v

\* Vec::push
vec_push(v, x) == Append(v, x)

\* Vec::pop of a vector that is not empty: the vector left and the last item
vec_pop_front(v) == [vec |-> Tail(v), item |-> Head(v)]

vec_pop(v) == [vec |-> SubSeq(v, 1, Len(v) - 1), item |-> v[Len(v)]]

\* Vec::iter().any(|&v| v == x)
vec_any_eq(v, x) == \E i \in 1..Len(v) : v[i] = x

\* StackFrameAllocator::init: current and end only
StackFrameAllocator_init(fa, l, r) == [fa EXCEPT !.current = l, !.end = r]

\* StackFrameAllocator::alloc: [fa |-> the allocator after, ppn |-> the page or NONE]
StackFrameAllocator_alloc_fifo(fa) ==
    IF Len(fa.recycled) > 0
    THEN [fa |-> [fa EXCEPT !.recycled = vec_pop_front(fa.recycled).vec],
          ppn |-> PhysPageNum_from_usize(vec_pop_front(fa.recycled).item)]
    ELSE IF fa.current = fa.end
    THEN [fa |-> fa, ppn |-> NONE]
    ELSE [fa |-> [fa EXCEPT !.current = fa.current + 1],
          ppn |-> PhysPageNum_from_usize((fa.current + 1) - 1)]

StackFrameAllocator_alloc_unbounded(fa) ==
    IF Len(fa.recycled) > 0
    THEN [fa |-> [fa EXCEPT !.recycled = vec_pop(fa.recycled).vec],
          ppn |-> PhysPageNum_from_usize(vec_pop(fa.recycled).item)]
    ELSE [fa |-> [fa EXCEPT !.current = fa.current + 1],
          ppn |-> PhysPageNum_from_usize((fa.current + 1) - 1)]

StackFrameAllocator_alloc_peek(fa) ==
    IF Len(fa.recycled) > 0
    THEN [fa |-> fa,
          ppn |-> PhysPageNum_from_usize(vec_pop(fa.recycled).item)]
    ELSE IF fa.current = fa.end
    THEN [fa |-> fa, ppn |-> NONE]
    ELSE [fa |-> [fa EXCEPT !.current = fa.current + 1],
          ppn |-> PhysPageNum_from_usize((fa.current + 1) - 1)]

StackFrameAllocator_alloc(fa) ==
    IF Len(fa.recycled) > 0
    THEN [fa |-> [fa EXCEPT !.recycled = vec_pop(fa.recycled).vec],
          ppn |-> PhysPageNum_from_usize(vec_pop(fa.recycled).item)]
    ELSE IF fa.current = fa.end
    THEN [fa |-> fa, ppn |-> NONE]
    ELSE [fa |-> [fa EXCEPT !.current = fa.current + 1],
          ppn |-> PhysPageNum_from_usize((fa.current + 1) - 1)]

\* StackFrameAllocator::dealloc: [fa |-> the allocator after, panic |-> whether it panicked]
StackFrameAllocator_dealloc_unchecked(fa, ppn) ==
    IF ppn >= fa.current
    THEN [fa |-> fa, panic |-> TRUE]
    ELSE [fa |-> [fa EXCEPT !.recycled = vec_push(fa.recycled, ppn)], panic |-> FALSE]

StackFrameAllocator_dealloc(fa, ppn) ==
    IF ppn >= fa.current \/ vec_any_eq(fa.recycled, ppn)
    THEN [fa |-> fa, panic |-> TRUE]
    ELSE [fa |-> [fa EXCEPT !.recycled = vec_push(fa.recycled, ppn)], panic |-> FALSE]

\* the loop of StackFrameAllocator::alloc_contig with k rounds to go:
\* [fa |-> the allocator after, ret |-> the pages pushed, panic |-> whether it panicked]
RECURSIVE alloc_contig_loop_short(_, _, _)
alloc_contig_loop_short(fa, ret, k) ==
    IF k = 0 \/ fa.current = fa.end
    THEN [fa |-> fa, ret |-> ret, panic |-> FALSE]
    ELSE alloc_contig_loop_short([fa EXCEPT !.current = fa.current + 1],
                                 vec_push(ret, PhysPageNum_from_usize((fa.current + 1) - 1)),
                                 k - 1)

RECURSIVE alloc_contig_loop_recycling(_, _, _)
alloc_contig_loop_recycling(fa, ret, k) ==
    IF k = 0
    THEN [fa |-> fa, ret |-> ret, panic |-> FALSE]
    ELSE IF Len(fa.recycled) > 0
    THEN alloc_contig_loop_recycling([fa EXCEPT !.recycled = vec_pop(fa.recycled).vec],
                                     vec_push(ret, vec_pop(fa.recycled).item), k - 1)
    ELSE IF fa.current = fa.end
    THEN [fa |-> fa, ret |-> ret, panic |-> TRUE]
    ELSE alloc_contig_loop_recycling([fa EXCEPT !.current = fa.current + 1],
                                     vec_push(ret, PhysPageNum_from_usize((fa.current + 1) - 1)),
                                     k - 1)

RECURSIVE alloc_contig_loop(_, _, _)
alloc_contig_loop(fa, ret, k) ==
    IF k = 0
    THEN [fa |-> fa, ret |-> ret, panic |-> FALSE]
    ELSE IF fa.current = fa.end
    THEN [fa |-> fa, ret |-> ret, panic |-> TRUE]
    ELSE alloc_contig_loop([fa EXCEPT !.current = fa.current + 1],
                           vec_push(ret, PhysPageNum_from_usize((fa.current + 1) - 1)),
                           k - 1)

\* StackFrameAllocator::alloc_contig
StackFrameAllocator_alloc_contig(fa, num) == alloc_contig_loop(fa, <<>>, num)

\* one more, one fewer live handle to page p
Hold(h, p) ==
    [q \in DOMAIN h \cup {p} |-> IF q = p THEN (IF p \in DOMAIN h THEN h[p] + 1 ELSE 1) ELSE h[q]]

RECURSIVE HoldAll(_, _)
HoldAll(h, ps) == IF ps = <<>> THEN h ELSE HoldAll(Hold(h, Head(ps)), Tail(ps))

Release(h, p) ==
    IF p \notin DOMAIN h THEN h
    ELSE IF h[p] = 1 THEN [q \in DOMAIN h \ {p} |-> h[q]]
    ELSE [h EXCEPT ![p] = h[p] - 1]

Pages(seq) == {seq[i] : i \in 1..Len(seq)}

\* the record of a call
FrameCall(op, arg, pages, ret, seq) ==
    [op |-> op, arg |-> arg, pages |-> pages, ret |-> ret, seq |-> seq, cleaned |-> 0]

\* how many calls of alloc were made since init when no other call was made,
\* counted up to the call after the last fresh page; -1 otherwise
NextAllocSeq ==
    IF flast.seq >= 0 /\ flast.seq <= frange[2] - frange[1] THEN flast.seq + 1 ELSE -1

\* the [l, r) init is called with
FrameRegions == {<<100, 110>>, <<1, 4>>, <<0, 2>>, <<2, 2>>}

\* FRAME_ALLOCATOR.exclusive_access().init(l, r)
FrameInit(l, r) ==
    /\ fphase = "new"
    /\ frame_allocator' = StackFrameAllocator_init(frame_allocator, l, r)
    /\ frange' = <<l, r>>
    /\ fphase' = "ready"
    /\ flast' = FrameCall("init", l, <<>>, "ok", 0)
    /\ UNCHANGED <<held, issued, page_mem>>
    /\ UNCHANGED not_frame_vars

\* alloc(): the caller keeps the page it is given
Alloc ==
    /\ fphase = "ready"
    /\ \E r \in {StackFrameAllocator_alloc(frame_allocator)} :
          /\ frame_allocator' = r.fa
          /\ held' = IF r.ppn = NONE THEN held ELSE Hold(held, r.ppn)
          /\ issued' = IF r.ppn = NONE THEN issued ELSE issued \cup {r.ppn}
          /\ flast' = FrameCall("alloc", 0, IF r.ppn = NONE THEN <<>> ELSE <<r.ppn>>,
                                IF r.ppn = NONE THEN "none" ELSE "ok", NextAllocSeq)
    /\ UNCHANGED <<page_mem, fphase, frange>>
    /\ UNCHANGED not_frame_vars

\* alloc_contig(num): a panic ends the kernel, nothing is returned
AllocContig(num) ==
    /\ fphase = "ready"
    /\ \E r \in {StackFrameAllocator_alloc_contig(frame_allocator, num)} :
          /\ frame_allocator' = r.fa
          /\ held' = IF r.panic THEN held ELSE HoldAll(held, r.ret)
          /\ issued' = IF r.panic THEN issued ELSE issued \cup Pages(r.ret)
          /\ flast' = FrameCall("alloc_contig", num, IF r.panic THEN <<>> ELSE r.ret,
                                IF r.panic THEN "panic" ELSE "ok", -1)
          /\ fphase' = IF r.panic THEN "panicked" ELSE fphase
    /\ UNCHANGED <<page_mem, frange>>
    /\ UNCHANGED not_frame_vars

\* dealloc(ppn) of any page number
Dealloc(ppn) ==
    /\ fphase = "ready"
    /\ \E r \in {StackFrameAllocator_dealloc(frame_allocator, ppn)} :
          /\ frame_allocator' = r.fa
          /\ held' = IF r.panic THEN held ELSE Release(held, ppn)
          /\ flast' = FrameCall("dealloc", ppn, <<>>, IF r.panic THEN "panic" ELSE "ok", -1)
          /\ fphase' = IF r.panic THEN "panicked" ELSE fphase
    /\ UNCHANGED <<issued, page_mem, frange>>
    /\ UNCHANGED not_frame_vars

\* the page numbers dealloc is tried with: around the first page and around the cursor
DeallocArgs ==
    {p \in {frange[1] - 1, frange[1], frange[1] + 1,
            frame_allocator.current - 1, frame_allocator.current} : p >= 0}

FrameInitStep == \E reg \in FrameRegions : FrameInit(reg[1], reg[2])

AllocStep == Alloc

AllocContigStep == \E num \in 0..MaxContig : AllocContig(num)

DeallocStep ==
    /\ Len(frame_allocator.recycled) < MaxRecycled
    /\ \E ppn \in DeallocArgs : Dealloc(ppn)

NextFrame == FrameInitStep \/ AllocStep \/ AllocContigStep \/ DeallocStep

SpecFrame == Init /\ [][NextFrame]_vars


(***************************************************************************)
(* Claims on the frame allocator                                           *)
(***************************************************************************)

\* a step that is a call of `op` on the frame allocator
FrameCalled(op) == frame_vars' # frame_vars /\ flast'.op = op

\* the page on top of the recycle list
RecycledTop(fa) == fa.recycled[Len(fa.recycled)]

\* C11: recycling is LIFO. An alloc made while the recycle list is not empty
\* returns the page deallocated last among those not given out again (the top
\* of the list), takes it off the list and leaves the cursor where it was; an
\* alloc that follows a dealloc(f1) returns f1, whether f1 was a fresh page or
\* had been recycled before.
C11_LifoRecycle ==
    [][FrameCalled("alloc") /\ Len(frame_allocator.recycled) > 0 =>
          /\ flast'.ret = "ok"
          /\ flast'.pages = <<RecycledTop(frame_allocator)>>
          /\ frame_allocator'.current = frame_allocator.current
          /\ frame_allocator'.end = frame_allocator.end
          /\ frame_allocator'.recycled =
                SubSeq(frame_allocator.recycled, 1, Len(frame_allocator.recycled) - 1)
          /\ (flast.op = "dealloc" /\ flast.ret = "ok" => flast'.pages = <<flast.arg>>)]_vars

\* an alloc took the later of two recycled pages
C11_Witness ==
    /\ flast.op = "alloc"
    /\ flast.ret = "ok"
    /\ Len(frame_allocator.recycled) > 0
    /\ flast.pages[1] \in issued
    /\ flast.pages[1] < frame_allocator.current - 1
    /\ flast.pages[1] # frame_allocator.recycled[1]

\* C12: fresh pages come in order. The k-th of the allocs that follow init
\* with no other call between returns page l + k - 1 while k <= r - l, and the
\* next one returns none. An alloc returns none exactly when the recycle list
\* is empty and current = end, and then it leaves the allocator as it was; with
\* the list empty and current # end it returns page current and moves current
\* by one. Over [100, 110): allocs 1..10 return 100..109, the 11th none.
C12_FreshInOrder ==
    [][FrameCalled("alloc") =>
          /\ (flast'.seq >= 1 /\ flast'.seq <= frange[2] - frange[1] =>
                 flast'.pages = <<frange[1] + flast'.seq - 1>>)
          /\ (flast'.seq = frange[2] - frange[1] + 1 => flast'.ret = "none")
          /\ (flast'.ret = "none" <=>
                 Len(frame_allocator.recycled) = 0
                 /\ frame_allocator.current = frame_allocator.end)
          /\ (flast'.ret = "none" => frame_allocator' = frame_allocator /\ flast'.pages = <<>>)
          /\ (Len(frame_allocator.recycled) = 0
              /\ frame_allocator.current # frame_allocator.end =>
                 /\ flast'.pages = <<frame_allocator.current>>
                 /\ frame_allocator' =
                       [frame_allocator EXCEPT !.current = frame_allocator.current + 1])
          /\ (frange = <<100, 110>> /\ flast'.seq \in 1..10 =>
                 flast'.pages = <<99 + flast'.seq>>)
          /\ (frange = <<100, 110>> /\ flast'.seq = 11 => flast'.ret = "none")]_vars

\* the 11th alloc over [100, 110) returned none
C12_Witness ==
    /\ frange = <<100, 110>>
    /\ flast.op = "alloc"
    /\ flast.seq = 11
    /\ flast.ret = "none"
    /\ frame_allocator.current = 110
    /\ issued = 100..109

\* the fresh pages left: end - current
FreshLeft(fa) == fa.end - fa.current

\* C13: alloc_contig(n) with at least n fresh pages left returns the n pages
\* current, current + 1, ..., current + n - 1 in this order, moves current by
\* n, and leaves the recycle list as it was, empty or not.
C13_ContigFresh ==
    [][\A n \in 0..(MaxContig + 1) :
          FrameCalled("alloc_contig") /\ flast'.arg = n
          /\ FreshLeft(frame_allocator) >= n =>
             /\ flast'.ret = "ok"
             /\ flast'.pages = [i \in 1..n |-> frame_allocator.current + i - 1]
             /\ frame_allocator'.current = frame_allocator.current + n
             /\ frame_allocator'.end = frame_allocator.end
             /\ frame_allocator'.recycled = frame_allocator.recycled]_vars

\* alloc_contig(4) returned four pages while two pages were on the recycle list
C13_Witness ==
    /\ flast.op = "alloc_contig"
    /\ flast.arg = 4
    /\ flast.ret = "ok"
    /\ Len(flast.pages) = 4
    /\ Len(frame_allocator.recycled) = 2
    /\ frame_allocator.current = flast.pages[4] + 1

\* C14: alloc_contig(n) with fewer than n fresh pages left panics, however many
\* pages are on the recycle list; a call that returns gives exactly n pages.
C14_ContigExhausted ==
    [][FrameCalled("alloc_contig") =>
          /\ (FreshLeft(frame_allocator) < flast'.arg =>
                 /\ flast'.ret = "panic"
                 /\ fphase' = "panicked"
                 /\ flast'.pages = <<>>
                 /\ held' = held
                 /\ frame_allocator'.recycled = frame_allocator.recycled)
          /\ (flast'.ret = "ok" => Len(flast'.pages) = flast'.arg)
          /\ flast'.ret \in {"ok", "panic"}]_vars

\* alloc_contig(3) panicked while two pages were on the recycle list
C14_Witness ==
    /\ flast.op = "alloc_contig"
    /\ flast.ret = "panic"
    /\ fphase = "panicked"
    /\ Len(frame_allocator.recycled) = 2
    /\ flast.arg = 3
    /\ frame_allocator.end - frange[1] >= 3

\* C15: dealloc(ppn) panics and leaves the allocator as it was when
\* ppn >= current or ppn is on the recycle list; otherwise it returns and ppn is
\* the new top of the recycle list, the rest unchanged.
C15_DeallocChecks ==
    [][FrameCalled("dealloc") =>
          IF flast'.arg >= frame_allocator.current
             \/ flast'.arg \in Pages(frame_allocator.recycled)
          THEN /\ flast'.ret = "panic"
               /\ fphase' = "panicked"
               /\ frame_allocator' = frame_allocator
          ELSE /\ flast'.ret = "ok"
               /\ fphase' = fphase
               /\ frame_allocator'.recycled = frame_allocator.recycled \o <<flast'.arg>>
               /\ frame_allocator'.current = frame_allocator.current
               /\ frame_allocator'.end = frame_allocator.end]_vars

\* a double free panicked: the page is below the cursor and on the recycle list
C15_Witness ==
    /\ flast.op = "dealloc"
    /\ flast.ret = "panic"
    /\ flast.arg < frame_allocator.current
    /\ flast.arg \in Pages(frame_allocator.recycled)

\* a dealloc at or above the cursor panicked
C15_WitnessAbove ==
    /\ flast.op = "dealloc"
    /\ flast.ret = "panic"
    /\ flast.arg >= frame_allocator.current

\* C16: a dealloc of a page that alloc and alloc_contig have not returned since
\* init, a page below the first page included, panics and leaves the
\* allocator as it was, so that every page alloc returns lies in [l, r).
C16_NeverAllocatedFatal ==
    [][/\ (FrameCalled("dealloc") /\ flast'.arg \notin issued =>
              flast'.ret = "panic" /\ frame_allocator' = frame_allocator)
       /\ (FrameCalled("alloc") /\ flast'.ret = "ok" =>
              flast'.pages[1] >= frange[1] /\ flast'.pages[1] < frange[2])]_vars

\* dealloc of the page below the first page returned, and the page is recycled
C16_Swallowed ==
    /\ flast.op = "dealloc"
    /\ flast.ret = "ok"
    /\ flast.arg < frange[1]
    /\ flast.arg \notin issued
    /\ flast.arg \in Pages(frame_allocator.recycled)

(***************************************************************************)
(* Frames owned through FrameTracker                                       *)
(***************************************************************************)

\* PhysPageNum::get_bytes_array: the indices of the slice over the page
get_bytes_array_short(ppn) == 0..(PAGE_BYTES - 2)

get_bytes_array(ppn) == 0..(PAGE_BYTES - 1)

\* the byte at index i of page p
read_byte(pm, p, i) == IF p \in DOMAIN pm /\ i \in DOMAIN pm[p] THEN pm[p][i] ELSE 0

\* bytes_array[i] = b for a byte b that is not 0
write_byte(pm, p, i, b) ==
    [q \in DOMAIN pm \cup {p} |->
        IF q = p
        THEN [j \in (IF p \in DOMAIN pm THEN DOMAIN pm[p] ELSE {}) \cup {i} |->
                 IF j = i THEN b ELSE pm[p][j]]
        ELSE pm[q]]

\* *i = 0 for the indices i in `indices` of page p
zero_bytes_keeping(pm, p, keep) ==
    IF keep = {} THEN [q \in DOMAIN pm \ {p} |-> pm[q]]
    ELSE [pm EXCEPT ![p] = [j \in keep |-> pm[p][j]]]

zero_bytes(pm, p, indices) ==
    zero_bytes_keeping(pm, p, IF p \in DOMAIN pm THEN DOMAIN pm[p] \ indices ELSE {})

\* FrameTracker::new(ppn): the page is cleaned
FrameTracker_new(pm, ppn) == zero_bytes(pm, ppn, get_bytes_array(ppn))

\* the bytes written so far that are not 0
DirtyBytes(pm) == UNION {{<<p, i>> : i \in DOMAIN pm[p]} : p \in DOMAIN pm}

\* how many bytes of the pages ps are not 0: what FrameTracker::new overwrites
Cleaned(pm, ps) == Cardinality({d \in DirtyBytes(pm) : d[1] \in Pages(ps)})

\* .iter().map(|p| FrameTracker::new(*p)).collect()
RECURSIVE map_FrameTracker_new(_, _)
map_FrameTracker_new(pm, ps) ==
    IF ps = <<>> THEN pm
    ELSE map_FrameTracker_new(FrameTracker_new(pm, Head(ps)), Tail(ps))

\* frame_alloc(): alloc().map(FrameTracker::new)
FrameAlloc ==
    /\ fphase = "ready"
    /\ \E r \in {StackFrameAllocator_alloc(frame_allocator)} :
          /\ frame_allocator' = r.fa
          /\ held' = IF r.ppn = NONE THEN held ELSE Hold(held, r.ppn)
          /\ issued' = IF r.ppn = NONE THEN issued ELSE issued \cup {r.ppn}
          /\ page_mem' = IF r.ppn = NONE THEN page_mem ELSE FrameTracker_new(page_mem, r.ppn)
          /\ flast' = [FrameCall("frame_alloc", 0, IF r.ppn = NONE THEN <<>> ELSE <<r.ppn>>,
                                 IF r.ppn = NONE THEN "none" ELSE "ok", -1)
                          EXCEPT !.cleaned = IF r.ppn = NONE THEN 0
                                             ELSE Cleaned(page_mem, <<r.ppn>>)]
    /\ UNCHANGED <<fphase, frange>>
    /\ UNCHANGED not_frame_vars

\* frame_alloc_contig(num)
FrameAllocContig(num) ==
    /\ fphase = "ready"
    /\ \E r \in {StackFrameAllocator_alloc_contig(frame_allocator, num)} :
          /\ frame_allocator' = r.fa
          /\ held' = IF r.panic THEN held ELSE HoldAll(held, r.ret)
          /\ issued' = IF r.panic THEN issued ELSE issued \cup Pages(r.ret)
          /\ page_mem' = IF r.panic THEN page_mem ELSE map_FrameTracker_new(page_mem, r.ret)
          /\ flast' = [FrameCall("frame_alloc_contig", num, IF r.panic THEN <<>> ELSE r.ret,
                                 IF r.panic THEN "panic" ELSE "ok", -1)
                          EXCEPT !.cleaned = IF r.panic THEN 0 ELSE Cleaned(page_mem, r.ret)]
          /\ fphase' = IF r.panic THEN "panicked" ELSE fphase
    /\ UNCHANGED frange
    /\ UNCHANGED not_frame_vars

\* Drop for FrameTracker: frame_dealloc(self.ppn)
DropTracker(ppn) ==
    /\ fphase = "ready"
    /\ ppn \in DOMAIN held
    /\ \E r \in {StackFrameAllocator_dealloc(frame_allocator, ppn)} :
          /\ frame_allocator' = r.fa
          /\ held' = Release(held, ppn)
          /\ flast' = FrameCall("drop", ppn, <<>>, IF r.panic THEN "panic" ELSE "ok", -1)
          /\ fphase' = IF r.panic THEN "panicked" ELSE fphase
    /\ UNCHANGED <<issued, page_mem, frange>>
    /\ UNCHANGED not_frame_vars

\* the owner of a tracker writes byte b at index i of its page
WritePage(ppn, i, b) ==
    /\ fphase = "ready"
    /\ ppn \in DOMAIN held
    /\ read_byte(page_mem, ppn, i) = 0
    /\ page_mem' = write_byte(page_mem, ppn, i, b)
    /\ flast' = FrameCall("write", ppn, <<>>, "ok", -1)
    /\ UNCHANGED <<frame_allocator, held, issued, fphase, frange>>
    /\ UNCHANGED not_frame_vars

\* the indices written: the first and the last byte of a page; the byte written
WrittenIndices == {0, PAGE_BYTES - 1}
WrittenBytes == {255}

TrackerRegions == {<<1, 4>>, <<0, 2>>, <<8, 13>>}

TrackerInitStep == \E reg \in TrackerRegions : FrameInit(reg[1], reg[2])

FrameAllocStep == FrameAlloc

FrameAllocContigStep == \E num \in 0..MaxContig : FrameAllocContig(num)

DropStep ==
    /\ Len(frame_allocator.recycled) < MaxRecycled
    /\ \E ppn \in DOMAIN held : DropTracker(ppn)

WriteStep ==
    /\ Cardinality(DirtyBytes(page_mem)) < MaxDirty
    /\ \E ppn \in DOMAIN held, i \in WrittenIndices, b \in WrittenBytes : WritePage(ppn, i, b)

NextTracker ==
    TrackerInitStep \/ FrameAllocStep \/ FrameAllocContigStep \/ DropStep \/ WriteStep

SpecTracker == Init /\ [][NextTracker]_vars

\* dealloc of a frame that is handed out
DeallocHeldStep ==
    /\ Len(frame_allocator.recycled) < MaxRecycled
    /\ \E ppn \in DOMAIN held : Dealloc(ppn)

NextOwned == FrameInitStep \/ AllocStep \/ AllocContigStep \/ DeallocHeldStep

SpecOwned == Init /\ [][NextOwned]_vars

\* the indices of page p at which the byte read is not 0 (read_byte gives 0
\* for an index page_mem has no entry for)
NonZeroBytes(pm, p) ==
    IF p \in DOMAIN pm THEN {i \in DOMAIN pm[p] : read_byte(pm, p, i) # 0} ELSE {}

\* every one of the 4096 bytes of page p reads 0
PageIsZero(pm, p) == NonZeroBytes(pm, p) \cap (0..4095) = {}

\* C17: right after frame_alloc or frame_alloc_contig has constructed its
\* FrameTrackers, each of the 4096 bytes of every page they own reads 0, also
\* when the page comes from the recycle list and its last owner wrote to it.
C17_ZeroInit ==
    [][FrameCalled("frame_alloc") \/ FrameCalled("frame_alloc_contig") =>
          \A k \in 1..Len(flast'.pages) : PageIsZero(page_mem', flast'.pages[k])]_vars

\* frame_alloc gave a recycled page in which its last owner had left two bytes
\* that were not 0
C17_Witness ==
    /\ flast.op = "frame_alloc"
    /\ flast.ret = "ok"
    /\ flast.cleaned = 2
    /\ PageIsZero(page_mem, flast.pages[1])
    /\ flast.pages[1] \in DOMAIN held

\* C18: over frame_alloc, frame_alloc_contig and drops of FrameTrackers, no
\* page is owned by two live trackers, no page owned by a live tracker is on
\* the recycle list, and a drop returns: it puts the page of the tracker, and
\* nothing else, on the recycle list, and the tracker is gone.
C18_ExclusiveOwnership ==
    [][/\ \A p \in DOMAIN held' :
             held'[p] = 1 /\ p \notin Pages(frame_allocator'.recycled)
       /\ (FrameCalled("drop") =>
              /\ flast'.ret = "ok"
              /\ frame_allocator' =
                    [frame_allocator EXCEPT !.recycled = frame_allocator.recycled \o <<flast'.arg>>]
              /\ held' = [q \in DOMAIN held \ {flast'.arg} |-> held[q]])]_vars

\* a tracker was dropped while another is live and another page is recycled
C18_Witness ==
    /\ flast.op = "drop"
    /\ flast.ret = "ok"
    /\ DOMAIN held # {}
    /\ Len(frame_allocator.recycled) = 2
    /\ frame_allocator.recycled[2] = flast.arg

\* C19: after init(l, r), over alloc, alloc_contig and dealloc of frames that
\* are handed out: l <= current <= r, current never decreases, the recycle list
\* has no page twice and only pages of [l, current), and every page alloc or
\* alloc_contig returns lies in [l, r).
C19_StateInvariant ==
    [][fphase' # "new" =>
          /\ frange'[1] <= frame_allocator'.current
          /\ frame_allocator'.current <= frange'[2]
          /\ frame_allocator'.end = frange'[2]
          /\ (fphase # "new" => frame_allocator'.current >= frame_allocator.current)
          /\ \A i, j \in 1..Len(frame_allocator'.recycled) :
                i # j => frame_allocator'.recycled[i] # frame_allocator'.recycled[j]
          /\ \A i \in 1..Len(frame_allocator'.recycled) :
                /\ frame_allocator'.recycled[i] >= frange'[1]
                /\ frame_allocator'.recycled[i] < frame_allocator'.current
          /\ \A k \in 1..Len(flast'.pages) :
                flast'.pages[k] >= frange'[1] /\ flast'.pages[k] < frange'[2]]_vars

\* the last fresh page was given out while pages are on the recycle list
C19_Witness ==
    /\ flast.op \in {"alloc", "alloc_contig"}
    /\ flast.ret = "ok"
    /\ Len(flast.pages) > 0
    /\ frame_allocator.current = frame_allocator.end
    /\ Len(frame_allocator.recycled) = 2
    /\ frange[1] < frange[2]

(***************************************************************************)
(* Addresses and page numbers (mm/address.rs)                              *)
(***************************************************************************)

\* crate::config
PAGE_SIZE_BITS == 12
PAGE_SIZE == 4096

\* the pages addresses are taken from: 0..MaxPage and one far page
MaxPage == 31

\* x & y on usize
RECURSIVE bitand(_, _)
bitand(x, y) ==
    IF x = 0 \/ y = 0 THEN 0
    ELSE 2 * bitand(x \div 2, y \div 2) + (IF x % 2 = 1 /\ y % 2 = 1 THEN 1 ELSE 0)

\* x << k on usize, for the values below 2^31 the conversions are applied to
shl(x, k) == x * 2 ^ k

\* PhysAddr::floor
PhysAddr_floor(a) == a \div PAGE_SIZE

\* PhysAddr::page_offset
PhysAddr_page_offset(a) == bitand(a, PAGE_SIZE - 1)

\* PhysAddr::aligned
PhysAddr_aligned(a) == PhysAddr_page_offset(a) = 0

\* From<PhysAddr> for PhysPageNum: [ppn |-> the page number, panic |-> whether assert_eq failed]
PhysPageNum_from_PhysAddr_truncating(v) == [ppn |-> PhysAddr_floor(v), panic |-> FALSE]

PhysPageNum_from_PhysAddr(v) ==
    [ppn |-> PhysAddr_floor(v), panic |-> PhysAddr_page_offset(v) # 0]

\* From<PhysPageNum> for PhysAddr
PhysAddr_from_PhysPageNum(v) == shl(v, PAGE_SIZE_BITS)

\* the physical addresses converted: aligned ones, and ones with the offsets
\* 1, half a page and the last byte
AddrPages == (0..MaxPage) \cup {2 ^ 18}
AddrOffsets == {0, 1, 2 ^ 11, 2 ^ 12 - 1}
PhysAddrs == {p * 2 ^ 12 + o : p \in AddrPages, o \in AddrOffsets}

Conv(op, arg, out, panic) ==
    [op |-> op, arg |-> arg, out |-> out, panic |-> panic, spins |-> 0,
     wrapped |-> FALSE]

\* PhysPageNum::from(a) for the PhysAddr a at hand
ToPhysPageNum ==
    /\ addr.type = "PhysAddr"
    /\ \E r \in {PhysPageNum_from_PhysAddr(addr.value)} :
          /\ conv' = Conv("PhysPageNum::from", addr.value, r.ppn, r.panic)
          /\ addr' = IF r.panic THEN [type |-> "panicked", value |-> addr.value]
                     ELSE [type |-> "PhysPageNum", value |-> r.ppn]
    /\ UNCHANGED not_addr_vars

\* PhysAddr::from(v) for the PhysPageNum v at hand
ToPhysAddr ==
    /\ addr.type = "PhysPageNum"
    /\ \E out \in {PhysAddr_from_PhysPageNum(addr.value)} :
          /\ conv' = Conv("PhysAddr::from", addr.value, out, FALSE)
          /\ addr' = [type |-> "PhysAddr", value |-> out]
    /\ UNCHANGED not_addr_vars

\* a PhysAddr at hand, no conversion made
InitAddr ==
    /\ HeapState0
    /\ FrameState0
    /\ RangeState0
    /\ GuardState0
    /\ ListState0
    /\ DmaState0
    /\ addr \in {[type |-> "PhysAddr", value |-> a] : a \in PhysAddrs}
    /\ conv = NoConv

NextAddr == ToPhysPageNum \/ ToPhysAddr

SpecAddr == InitAddr /\ [][NextAddr]_vars

\* C20: PhysPageNum::from(a) panics exactly when the page offset of the
\* PhysAddr a is not 0, and then gives no page number; for an aligned a it gives
\* a page number whose conversion back, PhysAddr::from, is a.
C20_RoundTrip ==
    [][/\ (conv' # conv /\ conv'.op = "PhysPageNum::from" =>
              /\ conv'.panic <=> conv'.arg % 4096 # 0
              /\ conv'.panic => addr'.type = "panicked")
       /\ (conv' # conv /\ conv'.op = "PhysAddr::from" =>
              /\ conv.op = "PhysPageNum::from"
              /\ ~conv.panic
              /\ conv.arg % 4096 = 0
              /\ conv'.arg = conv.out
              /\ conv'.out = conv.arg
              /\ addr' = [type |-> "PhysAddr", value |-> conv.arg])]_vars

\* an aligned address above 0 went to its page number and back
C20_Witness ==
    /\ conv.op = "PhysAddr::from"
    /\ conv.arg = 2 ^ 18
    /\ conv.out = 2 ^ 30
    /\ addr = [type |-> "PhysAddr", value |-> 2 ^ 30]

\* the conversion of an address with offset 4095 panicked
C20_WitnessUnaligned ==
    /\ conv.op = "PhysPageNum::from"
    /\ conv.panic
    /\ conv.arg = 3 * 4096 + 4095
    /\ addr.type = "panicked"

(***************************************************************************)
(* Construction of addresses from raw values (mm/address.rs).  A raw usize *)
(* is the set of the positions 0..63 of its bits that are 1.               *)
(***************************************************************************)

PA_WIDTH_SV39 == 56
VA_WIDTH_SV39 == 39

\* rounds of the empty loop followed
MaxSpins == 2

UsizeBits == 0..(USIZE_BITS - 1)

\* v as isize >> k: the sign bit fills the top
sar(v, k) == {i \in UsizeBits : Min(i + k, USIZE_BITS - 1) \in v}

\* the isize values 0 and -1
IsizeZero == {}
IsizeMinusOne == UsizeBits

\* From<usize> for VirtAddr: the loop is entered when tmp != 0 && tmp != -1;
\* the assert is reached only past the loop
VirtAddr_from_usize(v) ==
    [va |-> v,
     diverges |-> sar(v, VA_WIDTH_SV39) # IsizeZero /\ sar(v, VA_WIDTH_SV39) # IsizeMinusOne,
     panic |-> FALSE]

\* From<usize> for PhysAddr
PhysAddr_from_usize(v) ==
    [pa |-> v,
     panic |-> ~(sar(v, PA_WIDTH_SV39) = IsizeZero \/ sar(v, PA_WIDTH_SV39) = IsizeMinusOne)]

\* the raw values converted: every choice of bits 0 and 38 under each of the
\* patterns of bits 39..63
HighParts ==
    {{}, 39..63, 40..63, 56..63, 57..63, 39..55, {39}, {55}, {56}, {63},
     (39..63) \ {56}}
RawValues == {lo \cup hi : lo \in SUBSET {0, 38}, hi \in HighParts}

\* VirtAddr::from(v) for the raw value at hand
ToVirtAddr ==
    /\ addr.type = "usize"
    /\ \E r \in {VirtAddr_from_usize(addr.value)} :
          /\ conv' = Conv("VirtAddr::from", addr.value, r.va, r.panic)
          /\ addr' = IF r.diverges THEN [type |-> "loop", value |-> addr.value]
                     ELSE IF r.panic THEN [type |-> "panicked", value |-> addr.value]
                     ELSE [type |-> "VirtAddr", value |-> r.va]
    /\ UNCHANGED not_addr_vars

\* one more round of loop {} in VirtAddr::from
Spin ==
    /\ addr.type = "loop"
    /\ conv.spins < MaxSpins
    /\ conv' = [conv EXCEPT !.spins = conv.spins + 1]
    /\ UNCHANGED addr
    /\ UNCHANGED not_addr_vars

\* PhysAddr::from(v) for the raw value at hand
ToPhysAddrRaw ==
    /\ addr.type = "usize"
    /\ \E r \in {PhysAddr_from_usize(addr.value)} :
          /\ conv' = Conv("PhysAddr::from", addr.value, r.pa, r.panic)
          /\ addr' = IF r.panic THEN [type |-> "panicked", value |-> addr.value]
                     ELSE [type |-> "PhysAddr", value |-> r.pa]
    /\ UNCHANGED not_addr_vars

\* a raw value at hand, no conversion made
InitRaw ==
    /\ HeapState0
    /\ FrameState0
    /\ RangeState0
    /\ GuardState0
    /\ ListState0
    /\ DmaState0
    /\ addr \in {[type |-> "usize", value |-> v] : v \in RawValues}
    /\ conv = NoConv

NextRaw == ToVirtAddr \/ Spin \/ ToPhysAddrRaw

SpecRaw == InitRaw /\ [][NextRaw]_vars

\* bits [lo, 64) of v are all 0 or all 1
UniformFrom(v, lo) == (lo..63) \cap v = {} \/ (lo..63) \subseteq v

\* C21: VirtAddr::from(v) gives a VirtAddr exactly when bits [38, 64) of v are
\* all 0 or all 1.
C21_Canonical ==
    conv.op = "VirtAddr::from" => (addr.type = "VirtAddr" <=> UniformFrom(conv.arg, 38))

\* what the code accepts: bits [39, 64) all 0 or all 1
C21_CodeAccepts ==
    conv.op = "VirtAddr::from" => (addr.type = "VirtAddr" <=> UniformFrom(conv.arg, 39))

\* C22: VirtAddr::from(v) of a value that is not canonical ends in a panic: it
\* gives no address and is at no time in a loop.
C22_FailFast ==
    conv.op = "VirtAddr::from" /\ ~UniformFrom(conv.arg, 38) => addr.type = "panicked"

\* the construction is in its loop, MaxSpins rounds made, and nothing but
\* another round can follow
C22_Spinning ==
    /\ conv.op = "VirtAddr::from"
    /\ addr.type = "loop"
    /\ conv.spins = MaxSpins

\* C23: PhysAddr::from(v) gives a PhysAddr only when bits [56, 64) of v are
\* all 0, and panics when one of them is 1.
C23_TopBitsZero ==
    conv.op = "PhysAddr::from" =>
        /\ (addr.type = "PhysAddr" => (56..63) \cap conv.arg = {})
        /\ ((56..63) \cap conv.arg # {} => addr.type = "panicked")

\* what the code accepts: bits [56, 64) all 0 or all 1
C23_CodeAccepts ==
    conv.op = "PhysAddr::from" =>
        /\ (addr.type = "PhysAddr" <=> UniformFrom(conv.arg, 56))
        /\ (addr.type = "panicked" <=> ~UniformFrom(conv.arg, 56))

(***************************************************************************)
(* SimpleRange and its iterator (mm/address.rs)                            *)
(***************************************************************************)

\* bounds of the ranges: the values 0..RangeMax, calls of modify_right_bound,
\* calls of next after the first None
RangeMax == 4
MaxModifies == 2
MaxNones == 2

\* SimpleRange::new: [range |-> Self { l, r }, panic |-> whether the assert failed]
SimpleRange_new_unchecked(start, end) ==
    [range |-> [state |-> "live", l |-> start, r |-> end], panic |-> FALSE]

SimpleRange_new(start, end) ==
    IF start <= end
    THEN [range |-> [state |-> "live", l |-> start, r |-> end], panic |-> FALSE]
    ELSE [range |-> NoRange, panic |-> TRUE]

\* SimpleRange::modify_right_bound
modify_right_bound(rg, new_right) ==
    IF new_right >= rg.l
    THEN [range |-> [rg EXCEPT !.r = new_right], panic |-> FALSE]
    ELSE [range |-> rg, panic |-> TRUE]

\* StepByOne::step
step(x) == x + 1

\* IntoIterator for SimpleRange / SimpleRangeIterator::new
into_iter(rg) == [state |-> "live", current |-> rg.l, end |-> rg.r, yielded |-> <<>>]

\* Iterator::next: [it |-> the iterator after, item |-> the item or NONE]
SimpleRangeIterator_next_inclusive(it) ==
    IF it.current = it.end + 1
    THEN [it |-> it, item |-> NONE]
    ELSE [it |-> [it EXCEPT !.current = step(it.current),
                            !.yielded = Append(it.yielded, it.current)],
          item |-> it.current]

SimpleRangeIterator_next(it) ==
    IF it.current = it.end
    THEN [it |-> it, item |-> NONE]
    ELSE [it |-> [it EXCEPT !.current = step(it.current),
                            !.yielded = Append(it.yielded, it.current)],
          item |-> it.current]

RangeCall(op, a, b, ret, nones) ==
    [op |-> op, a |-> a, b |-> b, ret |-> ret, nones |-> nones, calls |-> rlast.calls]

\* SimpleRange::new(start, end)
RangeNew(start, end) ==
    /\ range.state = "none"
    /\ \E r \in {SimpleRange_new(start, end)} :
          /\ range' = IF r.panic THEN [r.range EXCEPT !.state = "panicked"] ELSE r.range
          /\ rlast' = RangeCall("new", start, end, IF r.panic THEN "panic" ELSE "ok", 0)
    /\ UNCHANGED range_iter
    /\ UNCHANGED not_range_vars

\* range.modify_right_bound(new_right)
ModifyRightBound(new_right) ==
    /\ range.state = "live"
    /\ range_iter.state = "none"
    /\ rlast.calls < MaxModifies
    /\ \E r \in {modify_right_bound(range, new_right)} :
          /\ range' = IF r.panic THEN [r.range EXCEPT !.state = "panicked"] ELSE r.range
          /\ rlast' = [RangeCall("modify_right_bound", new_right, 0,
                                 IF r.panic THEN "panic" ELSE "ok", 0)
                          EXCEPT !.calls = rlast.calls + 1]
    /\ UNCHANGED range_iter
    /\ UNCHANGED not_range_vars

\* range.into_iter()
IntoIter ==
    /\ range.state = "live"
    /\ range_iter.state = "none"
    /\ range_iter' = into_iter(range)
    /\ rlast' = RangeCall("into_iter", 0, 0, "ok", 0)
    /\ UNCHANGED range
    /\ UNCHANGED not_range_vars

\* iterator.next()
IterNext ==
    /\ range_iter.state = "live"
    /\ rlast.nones <= MaxNones
    /\ \E r \in {SimpleRangeIterator_next(range_iter)} :
          /\ range_iter' = r.it
          /\ rlast' = RangeCall("next", r.item, 0, IF r.item = NONE THEN "none" ELSE "some",
                                IF r.item = NONE THEN rlast.nones + 1 ELSE rlast.nones)
    /\ UNCHANGED range
    /\ UNCHANGED not_range_vars

RangeNewStep == \E start, end \in 0..RangeMax : RangeNew(start, end)

ModifyRightBoundStep == \E new_right \in 0..RangeMax : ModifyRightBound(new_right)

NextRange == RangeNewStep \/ ModifyRightBoundStep \/ IntoIter \/ IterNext

SpecRange == Init /\ [][NextRange]_vars

\* C24: a range that new(start, end) and calls of modify_right_bound have
\* made has r >= l. new with start > end panics and makes no range;
\* modify_right_bound with new_right < l panics and leaves the range as it was;
\* with new_right >= l it sets r and nothing else.
C24_RangeInvariant ==
    [][/\ (range'.state # "none" => range'.l <= range'.r)
       /\ (rlast' # rlast /\ rlast'.op = "new" =>
              IF rlast'.a > rlast'.b
              THEN rlast'.ret = "panic" /\ range'.state = "panicked"
              ELSE /\ rlast'.ret = "ok"
                   /\ range' = [state |-> "live", l |-> rlast'.a, r |-> rlast'.b])
       /\ (rlast' # rlast /\ rlast'.op = "modify_right_bound" =>
              IF rlast'.a < range.l
              THEN /\ rlast'.ret = "panic"
                   /\ range' = [range EXCEPT !.state = "panicked"]
              ELSE /\ rlast'.ret = "ok"
                   /\ range' = [range EXCEPT !.r = rlast'.a])]_vars

\* two calls of modify_right_bound have returned, the range is [2, 4)
C24_Witness ==
    /\ range.state = "live"
    /\ rlast.op = "modify_right_bound"
    /\ rlast.calls = 2
    /\ range.l = 2
    /\ range.r = 4

\* new with start > end has panicked
C24_WitnessNew ==
    /\ rlast.op = "new"
    /\ rlast.ret = "panic"
    /\ rlast.a > rlast.b
    /\ range.state = "panicked"

\* modify_right_bound with new_right < l has panicked
C24_WitnessModify ==
    /\ rlast.op = "modify_right_bound"
    /\ rlast.ret = "panic"
    /\ rlast.a < range.l
    /\ range.state = "panicked"

\* C25: the items an iterator over [l, r) has given are l, l + 1, ... in
\* this order, one each, all below r; next gives None exactly when r - l
\* items were given, and after a None every next gives None.
C25_Iteration ==
    [][range_iter'.state = "live" =>
          /\ range_iter'.yielded =
                [i \in 1..Len(range_iter'.yielded) |-> range.l + i - 1]
          /\ Len(range_iter'.yielded) <= range.r - range.l
          /\ (rlast' # rlast /\ rlast'.op = "next" =>
                 /\ rlast'.ret = "none" <=> Len(range_iter.yielded) = range.r - range.l
                 /\ rlast'.ret = "some" =>
                       /\ rlast'.a = range.l + Len(range_iter.yielded)
                       /\ range_iter'.yielded = Append(range_iter.yielded, rlast'.a)
                 /\ rlast'.ret = "none" => range_iter' = range_iter
                 /\ (rlast.op = "next" /\ rlast.ret = "none" => rlast'.ret = "none"))]_vars

\* the iterator over [1, 4) gave 1, 2, 3 and then None twice
C25_Witness ==
    /\ range.l = 1
    /\ range.r = 4
    /\ range_iter.yielded = <<1, 2, 3>>
    /\ rlast.op = "next"
    /\ rlast.ret = "none"
    /\ rlast.nones = 2

\* the iterator over an empty range gave None
C25_WitnessEmpty ==
    /\ range.state = "live"
    /\ range.l = range.r
    /\ range_iter.yielded = <<>>
    /\ rlast.op = "next"
    /\ rlast.ret = "none"

(***************************************************************************)
(* Guards of the two allocators.  Each allocator sits in an UPSafeCell;    *)
(* exclusive_access gives a guard that is held until the temporary is      *)
(* dropped, and panics when the guard of the cell is held already.  A call *)
(* is the sequence of what it does to the guards, calls it makes included. *)
(***************************************************************************)

\* calls made in a run
MaxGuardCalls == 2

AcquireGuard(cell) == [act |-> "acquire", cell |-> cell]
ReleaseGuard(cell) == [act |-> "release", cell |-> cell]

\* cell.exclusive_access() with `body` evaluated while the guard lives
exclusive_access(cell, body) == <<AcquireGuard(cell)>> \o body \o <<ReleaseGuard(cell)>>

\* SlabAllocator::init: two statements, each with a guard of its own
SlabAllocator_init_nested(start, size) ==
    exclusive_access("HEAP_ALLOCATOR", exclusive_access("HEAP_ALLOCATOR", <<>>))

SlabAllocator_init(start, size) ==
    exclusive_access("HEAP_ALLOCATOR", <<>>) \o exclusive_access("HEAP_ALLOCATOR", <<>>)

\* GlobalAlloc for SlabAllocator: Slabheap::alloc and Slabheap::dealloc call
\* nothing outside the heap
GlobalAlloc_alloc == exclusive_access("HEAP_ALLOCATOR", <<>>)
GlobalAlloc_dealloc == exclusive_access("HEAP_ALLOCATOR", <<>>)

\* GlobalAlloc::realloc, not overridden: alloc, copy, dealloc
GlobalAlloc_realloc == GlobalAlloc_alloc \o GlobalAlloc_dealloc

\* Vec::with_capacity(n), Vec::push on a vector of length len and capacity
\* cap, drop of a vector of capacity cap
Vec_with_capacity(n) == IF n > 0 THEN GlobalAlloc_alloc ELSE <<>>
Vec_push(len, cap) ==
    IF len < cap THEN <<>> ELSE IF cap = 0 THEN GlobalAlloc_alloc ELSE GlobalAlloc_realloc
Vec_drop(cap) == IF cap > 0 THEN GlobalAlloc_dealloc ELSE <<>>

\* init_frame_allocator
init_frame_allocator == exclusive_access("FRAME_ALLOCATOR", <<>>)

\* frame_alloc: alloc pops, FrameTracker::new writes the page
frame_alloc == exclusive_access("FRAME_ALLOCATOR", <<>>)

\* frame_alloc_contig(num): alloc_contig builds its Vec, collect builds the
\* Vec of trackers, the first Vec is dropped before the guard
frame_alloc_contig(num) ==
    exclusive_access("FRAME_ALLOCATOR",
                     Vec_with_capacity(num) \o Vec_with_capacity(num) \o Vec_drop(num))

\* frame_dealloc(ppn) with recycled of length len and capacity cap
frame_dealloc(len, cap) == exclusive_access("FRAME_ALLOCATOR", Vec_push(len, cap))

\* Drop for FrameTracker
FrameTracker_drop(len, cap) == frame_dealloc(len, cap)

\* (length, capacity) of recycled when dealloc pushes: room left, no buffer
\* yet, buffer full
RecycledShapes == {<<1, 4>>, <<0, 0>>, <<4, 4>>}

\* the calls and what they do to the guards
GuardCalls ==
    {[op |-> "SlabAllocator::init", arg |-> 0, events |-> SlabAllocator_init(0, 0)],
     [op |-> "GlobalAlloc::alloc", arg |-> 0, events |-> GlobalAlloc_alloc],
     [op |-> "GlobalAlloc::dealloc", arg |-> 0, events |-> GlobalAlloc_dealloc],
     [op |-> "init_frame_allocator", arg |-> 0, events |-> init_frame_allocator],
     [op |-> "frame_alloc", arg |-> 0, events |-> frame_alloc]}
    \cup {[op |-> "frame_alloc_contig", arg |-> num, events |-> frame_alloc_contig(num)] :
             num \in 0..MaxContig}
    \cup {[op |-> "frame_dealloc", arg |-> sh, events |-> frame_dealloc(sh[1], sh[2])] :
             sh \in RecycledShapes}
    \cup {[op |-> "FrameTracker::drop", arg |-> sh, events |-> FrameTracker_drop(sh[1], sh[2])] :
             sh \in RecycledShapes}

GuardCall(op, arg, ret, n) == [op |-> op, arg |-> arg, ret |-> ret, n |-> n]

\* a call begins: no call is under way
BeginCall ==
    /\ pending = <<>>
    /\ gcall.ret = "ok"
    /\ gcall.n < MaxGuardCalls
    /\ \E c \in GuardCalls :
          /\ pending' = c.events
          /\ gcall' = GuardCall(c.op, c.arg, "running", gcall.n + 1)
    /\ UNCHANGED borrowed
    /\ UNCHANGED not_guard_vars

\* the call returns when nothing is left to do
Returned(rest) == IF rest = <<>> THEN "ok" ELSE "running"

\* exclusive_access: panics when the guard of the cell is held
ExclusiveAccess ==
    /\ pending # <<>>
    /\ Head(pending).act = "acquire"
    /\ IF Head(pending).cell \in borrowed
       THEN /\ gcall' = [gcall EXCEPT !.ret = "already borrowed"]
            /\ pending' = <<>>
            /\ UNCHANGED borrowed
       ELSE /\ borrowed' = borrowed \cup {Head(pending).cell}
            /\ pending' = Tail(pending)
            /\ UNCHANGED gcall
    /\ UNCHANGED not_guard_vars

\* the guard is dropped
DropGuard ==
    /\ pending # <<>>
    /\ Head(pending).act = "release"
    /\ borrowed' = borrowed \ {Head(pending).cell}
    /\ pending' = Tail(pending)
    /\ gcall' = [gcall EXCEPT !.ret = Returned(Tail(pending))]
    /\ UNCHANGED not_guard_vars

GuardInit ==
    /\ HeapState0
    /\ FrameState0
    /\ AddrState0
    /\ RangeState0
    /\ ListState0
    /\ DmaState0
    /\ borrowed = {}
    /\ pending = <<>>
    /\ gcall = GuardCall("none", 0, "ok", 0)

NextGuard == BeginCall \/ ExclusiveAccess \/ DropGuard

SpecGuard == GuardInit /\ [][NextGuard]_vars

\* C26: in no init, alloc or dealloc of the Slab allocator and no init, alloc,
\* alloc_contig or dealloc of the frame allocator, a drop of a FrameTracker
\* included, is the guard of a cell asked for while it is held: no
\* exclusive_access panics, and each call returns with no guard held.
C26_NoReentrantGuard ==
    [][/\ gcall'.ret # "already borrowed"
       /\ (pending # <<>> /\ Head(pending).act = "acquire" =>
              Head(pending).cell \notin borrowed)
       /\ (gcall'.ret = "ok" => borrowed' = {})]_vars

\* the guard of the heap is held inside frame_dealloc, under the guard of the
\* frame allocator, for the second time in the call: recycled grows by realloc
C26_Witness ==
    /\ gcall.op = "frame_dealloc"
    /\ gcall.arg = <<4, 4>>
    /\ borrowed = {"FRAME_ALLOCATOR", "HEAP_ALLOCATOR"}
    /\ Len(pending) = 2

----------------------------------------------------------------------------
(* Claims about splitting and coalescing, checked under SpecBuddy *)

\* the blocks on free list k, from the head on
ListBlocks(fl, m, k) == iter(fl[k], m)

\* the first class >= c whose list is not empty, NUM_CLASSES if there is none
FirstNonEmpty(fl, c) ==
    IF \A k \in c .. (NUM_CLASSES - 1) : fl[k] = NULL
    THEN NUM_CLASSES
    ELSE CHOOSE k \in c .. (NUM_CLASSES - 1) :
            fl[k] # NULL /\ \A n \in c .. (k - 1) : fl[n] = NULL

\* list k after the step holds the blocks it held before, less those in `lost`,
\* plus those in `gained`
ListChanged(k, lost, gained) ==
    LET before == ListBlocks(buddy_heap.free_list, mem, k)
        after  == ListBlocks(buddy_heap'.free_list, mem', k)
    IN  /\ Range(after) = (Range(before) \ lost) \cup gained
        /\ Len(after) = Len(before) - Cardinality(lost) + Cardinality(gained)
        /\ lost \subseteq Range(before)
        /\ gained \cap Range(before) = {}

\* C27: when alloc with required class c finds its first non-empty list at class
\* i > c, list i loses exactly one block B, each list j with c <= j < i gains
\* exactly the block B + 2^j, no other list changes, and the pointer returned is
\* the base address of B.
C27_BuddySplit ==
    [][\A c \in {RequiredClass(last'.size, last'.align)} :
       \A i \in {FirstNonEmpty(buddy_heap.free_list, c)} :
          (last'.op = "alloc" /\ c < i /\ i < NUM_CLASSES) =>
              \E B \in Range(ListBlocks(buddy_heap.free_list, mem, i)) :
                  /\ last'.ret = "ok"
                  /\ last'.ptr = B
                  /\ ListChanged(i, {B}, {})
                  /\ \A j \in c .. (i - 1) : ListChanged(j, {}, {B + 2 ^ j})
                  /\ \A k \in Classes \ (c .. i) :
                        ListBlocks(buddy_heap'.free_list, mem', k)
                            = ListBlocks(buddy_heap.free_list, mem, k)]_vars

\* C27 witness: alloc(100, 8) on the single 8192-byte block of [0x2000, 0x4000)
\* split it six times: the upper halves are on lists 7..12, the base was returned.
C27_Witness ==
    /\ region = <<8192, 8192>>
    /\ last.op = "alloc" /\ last.seq = 0 /\ last.class = 7
    /\ last.ptr = 8192
    /\ init_blocks = {<<8192, 13>>}
    /\ FreeBlocks(buddy_heap.free_list, mem) = {<<8192 + 2 ^ j, j>> : j \in 7 .. 12}

\* the free blocks left by giving back the class-k block at p: while the block at
\* p XOR 2^k is free in class k, both leave class k and the lower of the two is
\* the block given back to class k + 1
RECURSIVE Coalesced(_, _, _)
Coalesced(fb, p, k) ==
    IF k < NUM_CLASSES - 1 /\ <<BuddyOf(p, k), k>> \in fb
    THEN Coalesced(fb \ {<<BuddyOf(p, k), k>>}, Min(p, BuddyOf(p, k)), k + 1)
    ELSE fb \cup {<<p, k>>}

\* some free list of class below 31 holds two blocks that are buddies of each other
BuddiesFree(fl, m) ==
    \E fb \in {FreeBlocks(fl, m)} :
        \E b \in fb : b[2] < NUM_CLASSES - 1 /\ <<BuddyOf(b[1], b[2]), b[2]>> \in fb

\* C28: dealloc of the class-k block at p merges it with the block at p XOR 2^k
\* when that block is on list k (both leave list k, min(p, buddy) enters list
\* k + 1) and repeats at the next class; and after init and any sequence of
\* allocs and matching deallocs, no list of class below 31 holds two buddies.
C28_Coalescing ==
    [][/\ last'.op = "dealloc" =>
             /\ last'.ret = "ok"
             /\ FreeBlocks(buddy_heap'.free_list, mem')
                  = Coalesced(FreeBlocks(buddy_heap.free_list, mem), last'.ptr,
                              RequiredClass(last'.size, last'.align))
       /\ phase' = "ready" => ~BuddiesFree(buddy_heap'.free_list, mem')]_vars

\* C28 witness: the 128-byte block split off the single 8192-byte block of
\* [0x2000, 0x4000) was given back and merged six times, up to class 13.
C28_Witness ==
    /\ region = <<8192, 8192>>
    /\ last.op = "dealloc" /\ last.size = 100 /\ last.ptr = 8192
    /\ live = {}
    /\ FreeBlocks(buddy_heap.free_list, mem) = {<<8192, 13>>}

\* the other case: the block given back stays on the list of its class, its buddy
\* being in use
C28_WitnessNoMerge ==
    /\ last.op = "dealloc"
    /\ <<last.ptr, RequiredClass(last.size, last.align)>>
           \in FreeBlocks(buddy_heap.free_list, mem)
    /\ \E b \in live : b.ptr = BuddyOf(last.ptr, RequiredClass(last.size, last.align))

----------------------------------------------------------------------------
(* buddyheap.rs at the top classes.  A block of class 31 is 2^31 bytes, past *)
(* the integers TLC computes with, so this part counts addresses and sizes  *)
(* in granules of 2^GRANULE_BITS bytes: every region and every layout size  *)
(* is a whole number of granules, so every address and size of the code is  *)
(* g * 2^GRANULE_BITS for the g kept here, and a block of g granules (g a   *)
(* power of two) has class trailing_zeros(g) + GRANULE_BITS.  The list      *)
(* operations, the scan and the counters are the ones above.               *)

GRANULE_BITS == NUM_CLASSES - 4

\* size.trailing_zeros() of a size of g granules (64 for g = 0)
class_of_granules(g) == IF g = 0 THEN USIZE_BITS ELSE TzFrom(g) + GRANULE_BITS

\* the while loop of Heap::add_to_heap: current_start + 8 <= end is
\* current_start < end for whole granules; lowbit and prev_power_of_two of
\* g * 2^GRANULE_BITS are those of g times 2^GRANULE_BITS
RECURSIVE add_loop_hi(_, _, _, _, _)
add_loop_hi(fl, m, current_start, end, total) ==
    IF current_start < end
    THEN LET size == Min(lowbit(current_start), prev_power_of_two(end - current_start))
             idx  == class_of_granules(size)
         IN  IF idx >= NUM_CLASSES
             THEN [free_list |-> fl, mem |-> m, total |-> total, panic |-> TRUE]
             ELSE LET r == push(fl[idx], m, current_start)
                  IN  add_loop_hi([fl EXCEPT ![idx] = r.head], r.mem,
                                  current_start + size, end, total + size)
    ELSE [free_list |-> fl, mem |-> m, total |-> total, panic |-> FALSE]

\* Heap::add_to_heap: whole granules are word-aligned, the rounding changes nothing
add_to_heap_hi(h, m, start, end) ==
    IF ~(start <= end)
    THEN [heap |-> h, mem |-> m, panic |-> TRUE]
    ELSE LET r == add_loop_hi(h.free_list, m, start, end, 0)
         IN  [heap  |-> [h EXCEPT !.free_list = r.free_list,
                                  !.total = h.total + r.total],
              mem   |-> r.mem,
              panic |-> r.panic]

\* max(size.next_power_of_two(), max(align, 8)) for a size of whole granules and
\* an alignment of at most one granule
alloc_size_hi(layout) == next_power_of_two(layout.size)

\* the split loop of Heap::alloc: the upper half of the class-j block is
\* block + (1 << (j - 1))
RECURSIVE split_hi(_, _, _, _)
split_round_hi(fl, j, class, p) ==
    IF p.item = NULL
    THEN [free_list |-> fl, mem |-> p.mem, ok |-> FALSE]
    ELSE LET a == push(fl[j - 1], p.mem, p.item + 2 ^ (j - 1 - GRANULE_BITS))
             b == push(a.head, a.mem, p.item)
         IN  split_hi([fl EXCEPT ![j] = p.head, ![j - 1] = b.head], b.mem, j - 1, class)

split_hi(fl, m, j, class) ==
    IF j <= class
    THEN [free_list |-> fl, mem |-> m, ok |-> TRUE]
    ELSE split_round_hi(fl, j, class, pop(fl[j], m))

\* Heap::alloc
heap_alloc_hi(h, m, layout) ==
    LET size  == alloc_size_hi(layout)
        class == class_of_granules(size)
        i     == first_fit(h.free_list, class)
    IN  IF i >= NUM_CLASSES
        THEN [heap |-> h, mem |-> m, ptr |-> NULL, class |-> class, panic |-> FALSE]
        ELSE heap_alloc_split(h, layout, size, class, split_hi(h.free_list, m, i, class))

\* current_ptr ^ (1 << current_class)
buddy_hi(current_ptr, current_class) == BuddyOf(current_ptr, current_class - GRANULE_BITS)

\* the coalescing loop of Heap::dealloc: while current_class < 32, search list
\* current_class for the buddy; if it is there, unlink it, pop the list, add 1 to
\* current_class and push the merged block onto free_list[current_class], which
\* for current_class = 32 is an index out of bounds
RECURSIVE coalesce_hi(_, _, _, _)
coalesce_merge_hi(fl, current_class, np, p) ==
    IF current_class + 1 >= NUM_CLASSES
    THEN [free_list |-> [fl EXCEPT ![current_class] = p.head], mem |-> p.mem,
          panic |-> TRUE]
    ELSE LET q == push(fl[current_class + 1], p.mem, np)
         IN  coalesce_hi([fl EXCEPT ![current_class] = p.head,
                                    ![current_class + 1] = q.head],
                         q.mem, np, current_class + 1)

coalesce_round_hi(fl, m, current_ptr, current_class, buddy, r) ==
    IF r.found
    THEN coalesce_merge_hi(fl, current_class, merged_base(current_ptr, buddy),
                           pop(r.head, r.mem))
    ELSE [free_list |-> fl, mem |-> m, panic |-> FALSE]

coalesce_hi(fl, m, current_ptr, current_class) ==
    IF ~(current_class < NUM_CLASSES)
    THEN [free_list |-> fl, mem |-> m, panic |-> FALSE]
    ELSE coalesce_round_hi(fl, m, current_ptr, current_class,
                           buddy_hi(current_ptr, current_class),
                           remove_node(fl[current_class], m, HEAD_SLOT, fl[current_class],
                                       buddy_hi(current_ptr, current_class)))

\* Heap::dealloc
heap_dealloc_hi(h, m, ptr, layout) ==
    LET size  == alloc_size_hi(layout)
        class == class_of_granules(size)
        a     == push(h.free_list[class], m, ptr)
    IN  IF class >= NUM_CLASSES
        THEN [heap |-> h, mem |-> m, class |-> class, panic |-> TRUE]
        ELSE [class |-> class] @@
             heap_dealloc_done(h, layout, size,
                 coalesce_hi([h.free_list EXCEPT ![class] = a.head], a.mem, ptr, class))

\* the regions [start, end) given to add_to_heap, in granules of 256 MiB
HiRegions ==
    { <<16, 24>>,      \* [0x1_0000_0000, 0x1_8000_0000): one block of class 31
      <<24, 32>>,      \* [0x1_8000_0000, 0x2_0000_0000): its buddy
      <<8, 16>>,       \* [0x8000_0000, 0x1_0000_0000): one block of class 31
      <<16, 32>>,      \* [0x1_0000_0000, 0x2_0000_0000): one chunk of 2^32 bytes
      <<5, 8>> }       \* blocks of class 28 and 29

\* the layout sizes requested, in granules
HiLayouts == { Layout(1, 8), Layout(3, 8), Layout(8, 8) }

\* the granules of the free blocks and of the blocks in use
Managed ==
    UNION {b[1] .. (b[1] + 2 ^ (b[2] - GRANULE_BITS) - 1) :
              b \in FreeBlocks(buddy_heap.free_list, mem)}
      \cup UNION {b.ptr .. (b.ptr + alloc_size_hi(Layout(b.size, b.align)) - 1) : b \in live}

\* Heap::add_to_heap(start, end) on memory the heap does not hold yet
AddToHeapHi(start, end) ==
    /\ phase \in {"new", "ready"}
    /\ (start .. (end - 1)) \cap Managed = {}
    /\ \E r \in {add_to_heap_hi(buddy_heap, mem, start, end)} :
          /\ buddy_heap' = r.heap
          /\ mem' = r.mem
          /\ phase' = IF r.panic THEN "panicked" ELSE "ready"
          /\ init_blocks' = FreeBlocks(r.heap.free_list, r.mem)
          /\ last' = Call("add_to_heap", Layout(0, 1), start,
                          IF r.panic THEN "panic" ELSE "ok", 0, 0)
    /\ region' = <<start, end - start>>
    /\ streak' = 0
    /\ UNCHANGED <<slabs, slab_used, slab_allocated, live>>
    /\ UNCHANGED not_heap_vars

\* Heap::alloc(layout)
HeapAllocHi(layout) ==
    /\ phase = "ready"
    /\ Cardinality(live) < MaxLive
    /\ \E r \in {heap_alloc_hi(buddy_heap, mem, layout)} :
          /\ buddy_heap' = r.heap
          /\ mem' = r.mem
          /\ live' = IF r.ptr = NULL THEN live
                     ELSE live \cup {[ptr |-> r.ptr, size |-> layout.size,
                                      align |-> layout.align]}
          /\ last' = Call("alloc", layout, r.ptr, Outcome(r.ptr, r.panic), r.class, 0)
          /\ streak' = NextStreak(Outcome(r.ptr, r.panic))
          /\ phase' = IF r.panic THEN "panicked" ELSE phase
    /\ UNCHANGED <<slabs, slab_used, slab_allocated, region, init_blocks>>
    /\ UNCHANGED not_heap_vars

\* Heap::dealloc(ptr, layout) of a block in use with the layout of its alloc
HeapDeallocHi(b) ==
    /\ phase = "ready"
    /\ b \in live
    /\ \E r \in {heap_dealloc_hi(buddy_heap, mem, b.ptr, Layout(b.size, b.align))} :
          /\ buddy_heap' = r.heap
          /\ mem' = r.mem
          /\ phase' = IF r.panic THEN "panicked" ELSE phase
          /\ last' = Call("dealloc", Layout(b.size, b.align), b.ptr,
                          IF r.panic THEN "panic" ELSE "ok", r.class, 0)
    /\ live' = live \ {b}
    /\ streak' = -1
    /\ UNCHANGED <<slabs, slab_used, slab_allocated, region, init_blocks>>
    /\ UNCHANGED not_heap_vars

AddToHeapHiStep == \E r \in HiRegions : AddToHeapHi(r[1], r[2])
HeapAllocHiStep == \E l \in HiLayouts : HeapAllocHi(l)
HeapDeallocHiStep == \E b \in live : HeapDeallocHi(b)

NextHi == AddToHeapHiStep \/ HeapAllocHiStep \/ HeapDeallocHiStep

SpecHi == Init /\ [][NextHi]_vars

\* giving back the class-k block at p reaches class 31, directly or by merging,
\* with the class-31 buddy free
RECURSIVE ReachesTopWithBuddy(_, _, _)
ReachesTopWithBuddy(fb, p, k) ==
    /\ <<buddy_hi(p, k), k>> \in fb
    /\ k < NUM_CLASSES - 1 =>
          ReachesTopWithBuddy(fb \ {<<buddy_hi(p, k), k>>}, Min(p, buddy_hi(p, k)), k + 1)

\* C29: when dealloc reaches class 31, directly or by promotion, with the
\* class-31 buddy of the block free, the call completes normally and both blocks
\* stay on list 31.
C29_StopsAtTop ==
    [][\A fb \in {FreeBlocks(buddy_heap.free_list, mem)} :
          (last'.op = "dealloc" /\ ReachesTopWithBuddy(fb, last'.ptr, last'.class)) =>
              /\ last'.ret = "ok"
              /\ \E top \in {b \in fb : b[2] = NUM_CLASSES - 1} :
                    /\ buddy_hi(top[1], NUM_CLASSES - 1)
                          \in Range(ListBlocks(buddy_heap'.free_list, mem', NUM_CLASSES - 1))
                    /\ top[1] \in Range(ListBlocks(buddy_heap'.free_list, mem', NUM_CLASSES - 1))]_vars

\* the case is reached: a class-31 block is given back while its class-31 buddy
\* is on list 31, and the call does not return
C29_TopBuddyFree ==
    /\ last.op = "dealloc" /\ last.class = NUM_CLASSES - 1
    /\ last.ret = "panic"
    /\ ListBlocks(buddy_heap.free_list, mem, NUM_CLASSES - 1) = <<>>

\* what the code does hold to: a dealloc whose merging ends below class 31, or at
\* class 31 with the buddy not free, returns
C29_ReturnsBelowTop ==
    [][\A fb \in {FreeBlocks(buddy_heap.free_list, mem)} :
          (last'.op = "dealloc" /\ ~ReachesTopWithBuddy(fb, last'.ptr, last'.class)) =>
              last'.ret = "ok"]_vars

----------------------------------------------------------------------------
(* Heap::add_to_heap over many regions: every start and length up to the    *)
(* bounds, given to Heap::init on a new heap                                *)

MaxCarveStart == 33
MaxCarveLen == 40

CarveRegions == (0 .. MaxCarveStart) \X (0 .. MaxCarveLen)

CarveStep == \E r \in CarveRegions : HeapInit(r[1], r[2])

SpecCarve == Init /\ [][CarveStep]_vars

\* the region after rounding start up and end down to the word
RoundedStart == CHOOSE s \in region[1] .. (region[1] + WORD - 1) : s % WORD = 0
RoundedEnd ==
    CHOOSE e \in (region[1] + region[2] - WORD + 1) .. (region[1] + region[2]) :
        e % WORD = 0

RECURSIVE SumOfSizes(_)
SumOfSizes(blocks) ==
    IF blocks = {}
    THEN 0
    ELSE LET b == CHOOSE x \in blocks : TRUE
         IN  2 ^ b[2] + SumOfSizes(blocks \ {b})

\* the largest power of two dividing a (a > 0), the largest one <= n (n > 0)
LargestPow2Dividing(a) ==
    CHOOSE p \in {2 ^ i : i \in 0 .. 30} : a % p = 0 /\ a % (2 * p) # 0
LargestPow2AtMost(n) ==
    CHOOSE p \in {2 ^ i : i \in 0 .. 30} : p <= n /\ n < 2 * p

\* the chunks tile [s, e): they cover it, and their sizes add up to its length
Tiles(blocks, s, e) ==
    /\ UNION {b[1] .. (b[1] + 2 ^ b[2] - 1) : b \in blocks} = s .. (e - 1)
    /\ SumOfSizes(blocks) = e - s

\* the chunk at a of class k is the one the rule gives for a region ending at e
ChunkRule(a, k, e) ==
    /\ k \in 0 .. (NUM_CLASSES - 1)
    /\ 2 ^ k = Min(LargestPow2Dividing(a), LargestPow2AtMost(e - a))

\* C30: for every region whose rounded start is not above its rounded end, the
\* chunks pushed by add_to_heap tile the rounded region, each has the size
\* min(largest power of two dividing its start, largest power of two <= the
\* remaining length) and is on the list of index log2(size) within 0..31, and
\* total grows by the rounded length.
C30_Carving ==
    (last.op = "init" /\ RoundedStart <= RoundedEnd) =>
        /\ last.ret = "ok"
        /\ Tiles(init_blocks, RoundedStart, RoundedEnd)
        /\ \A b \in init_blocks : ChunkRule(b[1], b[2], RoundedEnd)
        /\ buddy_heap.total = RoundedEnd - RoundedStart

\* the same for the regions that do not start at address 0: this the code does
C30_CarvingAboveZero ==
    (last.op = "init" /\ RoundedStart <= RoundedEnd /\ region[1] > 0) =>
        /\ last.ret = "ok"
        /\ Tiles(init_blocks, RoundedStart, RoundedEnd)
        /\ \A b \in init_blocks : ChunkRule(b[1], b[2], RoundedEnd)
        /\ buddy_heap.total = RoundedEnd - RoundedStart

\* a region carved into several chunks of different sizes
C30_SeveralChunks ==
    /\ last.op = "init" /\ last.ret = "ok"
    /\ region = <<9, 31>>
    /\ init_blocks = {<<16, 4>>, <<32, 3>>}
    /\ buddy_heap.total = 24

\* the region [0, 32): no chunk is pushed and the call does not return
C30_FromZero ==
    /\ last.op = "init" /\ last.ret = "panic"
    /\ region = <<0, 32>>
    /\ init_blocks = {}

\* the same claim for regions of whole granules at 2^31 and above (SpecHi): the
\* call returns and every chunk is on a list within 0..31
C30_CarvingHi ==
    [][last'.op = "add_to_heap" =>
          /\ last'.ret = "ok"
          /\ buddy_heap'.total = buddy_heap.total + region'[2]]_vars

\* [0x1_0000_0000, 0x2_0000_0000): one chunk of 2^32 bytes, index 32
C30_ChunkOfClass32 ==
    /\ last.op = "add_to_heap" /\ last.ret = "panic"
    /\ region = <<16, 16>>

----------------------------------------------------------------------------
(* Invariants of the Buddy Heap, checked under SpecBuddy *)

\* C31: every block on free list k has an address that is a multiple of 2^k, and
\* every pointer returned by alloc(layout) is a multiple of layout.align.
C31_Aligned ==
    /\ \A b \in FreeBlocks(buddy_heap.free_list, mem) : b[1] % (2 ^ b[2]) = 0
    /\ (last.op = "alloc" /\ last.ret = "ok") => last.ptr % last.align = 0

\* C31 witness: over [4152, 4224), carved into an 8-byte and a 64-byte block,
\* alloc(8, align 64) returned the 64-byte block at 4160.
C31_Witness ==
    /\ region = <<4152, 72>>
    /\ last.op = "alloc" /\ last.ret = "ok"
    /\ last.size = 8 /\ last.align = 64
    /\ last.ptr = 4160
    /\ FreeBlocks(buddy_heap.free_list, mem) = {<<4152, 3>>}

----------------------------------------------------------------------------
(* Further claims about the Slab allocator, checked under SpecSlab *)

\* the blocks on the list of slab class c, from the head on
SlabList(sl, m, c) == iter(sl[c].head, m)

\* C32: an alloc of a slab class whose list is empty makes exactly one request
\* of the Buddy Heap, for 64 x class_size bytes aligned to 4096, and when it
\* returns the list holds exactly 63 blocks which with the returned one are the
\* 64 addresses chunk + i * class_size, i in 0..63; an alloc of a class whose
\* list is not empty pops one block and makes no request.
C32_Refill ==
    [][\A c \in {ClassOf(last'.size)} :
          (last'.op = "alloc" /\ phase = "ready" /\ c # BUDDY_HEAP) =>
              IF slabs[c].head = NULL
              THEN \E a \in {heap_alloc(buddy_heap, mem, Layout(64 * c, 4096))} :
                      /\ last'.reqs = 1
                      /\ buddy_heap' = a.heap
                      /\ last'.ret = "ok" =>
                            /\ a.ptr # NULL
                            /\ Len(SlabList(slabs', mem', c)) = 63
                            /\ last'.ptr \notin Range(SlabList(slabs', mem', c))
                            /\ Range(SlabList(slabs', mem', c)) \cup {last'.ptr}
                                  = {a.ptr + i * c : i \in 0 .. 63}
              ELSE /\ last'.reqs = 0
                   /\ last'.ret = "ok"
                   /\ buddy_heap' = buddy_heap
                   /\ <<last'.ptr>> \o SlabList(slabs', mem', c)
                         = SlabList(slabs, mem, c)]_vars

\* C32 witness: the 128-byte class was refilled from the 8192-byte chunk at
\* 0x2000; 63 blocks are on its list.
C32_Witness ==
    /\ last.op = "alloc" /\ last.class = 128 /\ last.reqs = 1 /\ last.ret = "ok"
    /\ Len(SlabList(slabs, mem, 128)) = 63
    /\ Range(SlabList(slabs, mem, 128)) \cup {last.ptr} = {8192 + i * 128 : i \in 0 .. 63}

\* the other case: an alloc served from a list that was not empty, with no request
C32_WitnessPop ==
    /\ last.op = "alloc" /\ last.class = 64 /\ last.reqs = 0 /\ last.ret = "ok"
    /\ Len(SlabList(slabs, mem, 64)) = 62

----------------------------------------------------------------------------
(* linked_list.rs: a LinkedList used on its own.  `pushed` is kept beside   *)
(* the list by the calls themselves: what was pushed and not yet taken out, *)
(* the latest first.                                                       *)

MaxListLen == 3

\* the addresses of the words pushed
ListItems == {8, 16, 24, 32}

\* for block in list.iter_mut() { if block.value() == target { block.pop(); break } }
\* (remove_first, below: the variant that takes out the first node visited)
remove_first(head, m, target) ==
    IF head = NULL
    THEN [head |-> head, mem |-> m, found |-> FALSE]
    ELSE [head |-> m[head], mem |-> Forget(m, head), found |-> TRUE]
remove(head, m, target) == remove_node(head, m, HEAD_SLOT, head, target)

ListCall(op, arg, ret) == [op |-> op, arg |-> arg, ret |-> ret]

\* list.push(item), item being a word that is not in the list
ListPush(item) ==
    /\ Len(pushed) < MaxListLen
    /\ item \notin Range(pushed)
    /\ \E r \in {push(list.head, list_mem, item)} :
          /\ list' = [head |-> r.head]
          /\ list_mem' = r.mem
    /\ pushed' = <<item>> \o pushed
    /\ llast' = ListCall("push", item, NULL)
    /\ UNCHANGED not_list_vars

\* list.pop(); ret = NULL stands for None
ListPop ==
    /\ \E r \in {pop(list.head, list_mem)} :
          /\ list' = [head |-> r.head]
          /\ list_mem' = r.mem
          /\ llast' = ListCall("pop", NULL, r.item)
    /\ pushed' = IF pushed = <<>> THEN pushed ELSE Tail(pushed)
    /\ UNCHANGED not_list_vars

\* the loop over iter_mut() that pops the node whose value is target
ListRemove(target) ==
    /\ \E r \in {remove(list.head, list_mem, target)} :
          /\ list' = [head |-> r.head]
          /\ list_mem' = r.mem
          /\ llast' = ListCall("remove", target, IF r.found THEN target ELSE NULL)
    /\ pushed' = SelectSeq(pushed, LAMBDA x : x # target)
    /\ UNCHANGED not_list_vars

ListPushStep == \E item \in ListItems : ListPush(item)
ListRemoveStep == \E target \in ListItems : ListRemove(target)

NextList == ListPushStep \/ ListPop \/ ListRemoveStep

SpecList == Init /\ [][NextList]_vars

C33_WitnessHead ==
    /\ llast = ListCall("remove", 24, 24)
    /\ iter(list.head, list_mem) = <<16, 8>>

----------------------------------------------------------------------------
(* Page arithmetic of PhysAddr and VirtAddr (mm/address.rs).  An operation  *)
(* on usize that leaves 0 .. 2^64 - 1 panics in a build with overflow       *)
(* checks and wraps in a build without them; both builds are followed.     *)

\* VirtAddr::floor, page_offset, aligned
VirtAddr_floor(a) == a \div PAGE_SIZE
VirtAddr_page_offset(a) == bitand(a, PAGE_SIZE - 1)
VirtAddr_aligned(a) == VirtAddr_page_offset(a) = 0

\* (self.0 - 1 + PAGE_SIZE) / PAGE_SIZE.  For self.0 = 0 the subtraction leaves
\* usize: with overflow checks it panics; without, it wraps to 2^64 - 1 and the
\* addition wraps again, to PAGE_SIZE - 1.
\* (ceil_plain: the variant that divides without adding PAGE_SIZE - 1)
ceil_plain(a, overflow_checks) ==
    [page |-> a \div PAGE_SIZE, panic |-> FALSE, wrapped |-> FALSE]
ceil(a, overflow_checks) ==
    IF a = 0
    THEN IF overflow_checks
         THEN [page |-> 0, panic |-> TRUE, wrapped |-> TRUE]
         ELSE [page |-> (PAGE_SIZE - 1) \div PAGE_SIZE, panic |-> FALSE, wrapped |-> TRUE]
    ELSE [page |-> (a - 1 + PAGE_SIZE) \div PAGE_SIZE, panic |-> FALSE, wrapped |-> FALSE]

\* PhysAddr::ceil and VirtAddr::ceil
PhysAddr_ceil(a, overflow_checks) == ceil(a, overflow_checks)
VirtAddr_ceil(a, overflow_checks) == ceil(a, overflow_checks)

\* the addresses the operations are applied to: those of the conversions, 0 among them
PageAddrs == PhysAddrs

\* a.floor() for the address at hand
Floor ==
    /\ conv' = Conv(addr.type \o "::floor", addr.value,
                    IF addr.type = "PhysAddr" THEN PhysAddr_floor(addr.value)
                    ELSE VirtAddr_floor(addr.value), FALSE)
    /\ UNCHANGED addr
    /\ UNCHANGED not_addr_vars

\* a.ceil() for the address at hand, in a build with or without overflow checks
Ceil ==
    /\ \E overflow_checks \in BOOLEAN :
       \E r \in {IF addr.type = "PhysAddr" THEN PhysAddr_ceil(addr.value, overflow_checks)
                 ELSE VirtAddr_ceil(addr.value, overflow_checks)} :
          conv' = [Conv(addr.type \o "::ceil", addr.value, r.page, r.panic)
                       EXCEPT !.wrapped = r.wrapped]
    /\ UNCHANGED addr
    /\ UNCHANGED not_addr_vars

\* a.page_offset() for the address at hand
PageOffset ==
    /\ conv' = Conv(addr.type \o "::page_offset", addr.value,
                    IF addr.type = "PhysAddr" THEN PhysAddr_page_offset(addr.value)
                    ELSE VirtAddr_page_offset(addr.value), FALSE)
    /\ UNCHANGED addr
    /\ UNCHANGED not_addr_vars

\* a.aligned() for the address at hand
Aligned ==
    /\ conv' = Conv(addr.type \o "::aligned", addr.value,
                    IF addr.type = "PhysAddr" THEN PhysAddr_aligned(addr.value)
                    ELSE VirtAddr_aligned(addr.value), FALSE)
    /\ UNCHANGED addr
    /\ UNCHANGED not_addr_vars

\* a PhysAddr or VirtAddr at hand, no operation made
InitPage ==
    /\ HeapState0
    /\ FrameState0
    /\ RangeState0
    /\ GuardState0
    /\ ListState0
    /\ DmaState0
    /\ addr \in {[type |-> t, value |-> a] : t \in {"PhysAddr", "VirtAddr"}, a \in PageAddrs}
    /\ conv = NoConv

NextPage == Floor \/ Ceil \/ PageOffset \/ Aligned

SpecPage == InitPage /\ [][NextPage]_vars

\* the operation of the last call, without the type it was called on
PageOp(name) == conv.op \in {"PhysAddr::" \o name, "VirtAddr::" \o name}

\* the smallest page number p with p * PAGE_SIZE >= a
SmallestPageFrom(a) ==
    CHOOSE p \in 0 .. (a \div PAGE_SIZE + 1) :
        /\ p * PAGE_SIZE >= a
        /\ \A q \in 0 .. (p - 1) : q * PAGE_SIZE < a

\* what the claim says of the last call on the address a
PageArithmetic(a) ==
    /\ ~conv.panic
    /\ ~conv.wrapped
    /\ PageOp("floor") => conv.out = a \div PAGE_SIZE
    /\ PageOp("page_offset") =>
          /\ conv.out = a % PAGE_SIZE
          /\ a = (a \div PAGE_SIZE) * PAGE_SIZE + conv.out
    /\ PageOp("aligned") => (conv.out <=> a % PAGE_SIZE = 0)
    /\ PageOp("ceil") =>
          /\ conv.out = SmallestPageFrom(a)
          /\ conv.out = (IF a % PAGE_SIZE = 0 THEN a \div PAGE_SIZE
                         ELSE a \div PAGE_SIZE + 1)

\* C34: for every address a, a = 0 included, floor(a) = a div PAGE_SIZE,
\* page_offset(a) = a mod PAGE_SIZE, a = floor(a) * PAGE_SIZE + page_offset(a),
\* aligned(a) iff page_offset(a) = 0, and ceil(a) is the smallest page number p
\* with p * PAGE_SIZE >= a, computed without arithmetic overflow or underflow.
C34_PageArithmetic ==
    conv.op # "none" => PageArithmetic(conv.arg)

\* the same for the addresses above 0: this the code does
C34_AboveZero ==
    (conv.op # "none" /\ conv.arg > 0) => PageArithmetic(conv.arg)

\* ceil of the address 0: the subtraction underflows and the call panics (overflow
\* checks on), or wraps twice and gives page 0 (overflow checks off)
C34_CeilOfZeroPanics ==
    /\ PageOp("ceil") /\ conv.arg = 0
    /\ conv.panic

C34_CeilOfZeroWraps ==
    /\ PageOp("ceil") /\ conv.arg = 0
    /\ ~conv.panic /\ conv.wrapped /\ conv.out = 0

\* ceil of an address that is not aligned is reached
C34_CeilUnaligned ==
    /\ conv.op = "VirtAddr::ceil" /\ conv.arg = 4097 /\ conv.out = 2

\* the bytes [lo, hi) of a live block, of the free blocks of the slab classes and
\* of the free blocks of the Buddy Heap
LiveBytes(b) == <<b.ptr, b.ptr + Extent(b)>>
SlabFreeBytes(sl, m) ==
    UNION {{<<a, a + c>> : a \in Range(SlabList(sl, m, c))} : c \in SlabSizes}
BuddyFreeBytes(h, m) == {<<b[1], b[1] + 2 ^ b[2]>> : b \in FreeBlocks(h.free_list, m)}

Overlap(x, y) == x[1] < y[2] /\ y[1] < x[2]

\* what the live blocks add up to in Slabheap.allocated
RECURSIVE AccountOf(_)
AccountOf(blocks) ==
    IF blocks = {}
    THEN 0
    ELSE LET b == CHOOSE x \in blocks : TRUE
         IN  slab_account(Layout(b.size, b.align), ClassOf(b.size)) + AccountOf(blocks \ {b})

\* C35: for allocs and matching deallocs on the Slab allocator, slab classes and
\* the Buddy path together, any two blocks live at the same time are disjoint
\* (the block just returned is one of them, and every block counted in
\* `allocated` is a live block of its own), and no live block overlaps a block
\* on a slab list or a Buddy list.
C35_NoOverlap ==
    phase = "ready" =>
        /\ (last.op = "alloc" /\ last.ret = "ok") =>
               [ptr |-> last.ptr, size |-> last.size, align |-> last.align] \in live
        /\ AccountOf(live) = slab_allocated
        /\ \A free \in {SlabFreeBytes(slabs, mem) \cup BuddyFreeBytes(buddy_heap, mem)} :
              \A b \in live :
                 /\ \A f \in free : ~Overlap(LiveBytes(b), f)
                 /\ \A d \in live \ {b} : ~Overlap(LiveBytes(b), LiveBytes(d))

\* C35 witness: a block of a slab class and a block served by the Buddy Heap are
\* live together, next to free blocks of both kinds.
C35_Witness ==
    /\ \E b \in live : ClassOf(b.size) # BUDDY_HEAP
    /\ \E b \in live : ClassOf(b.size) = BUDDY_HEAP
    /\ SlabFreeBytes(slabs, mem) # {}
    /\ BuddyFreeBytes(buddy_heap, mem) # {}
    /\ phase = "ready"

\* C36: total equals `allocated` plus the sum of 2^k over the blocks of all free
\* lists k; an alloc that fails changes none of the three; `user` never exceeds
\* `allocated`.
C36_Conservation ==
    [][/\ buddy_heap'.total
             = buddy_heap'.allocated + SumOfSizes(FreeBlocks(buddy_heap'.free_list, mem'))
       /\ buddy_heap'.user <= buddy_heap'.allocated
       /\ (last'.op = "alloc" /\ last'.ret = "err") =>
             /\ buddy_heap'.total = buddy_heap.total
             /\ buddy_heap'.allocated = buddy_heap.allocated
             /\ FreeBlocks(buddy_heap'.free_list, mem') = FreeBlocks(buddy_heap.free_list, mem)]_vars

\* C36 witness: a block is in use, rounded up from its size, and an alloc has
\* just failed on what is left.
C36_Witness ==
    /\ last.op = "alloc" /\ last.ret = "err"
    /\ Cardinality(live) = 1
    /\ buddy_heap.user < buddy_heap.allocated
    /\ buddy_heap.allocated < buddy_heap.total

\* C37: after one add_to_heap and any allocs and matching deallocs in any order,
\* once every block has been given back the free lists hold exactly the
\* (address, class) blocks they held right after add_to_heap, and user and
\* allocated are 0.
C37_Restored ==
    (phase = "ready" /\ live = {}) =>
        /\ FreeBlocks(buddy_heap.free_list, mem) = init_blocks
        /\ buddy_heap.user = 0
        /\ buddy_heap.allocated = 0

\* C37 witness: every block is back after a dealloc that was not the first call
\* to break the run of allocs, of a block that is not at the start of the region.
C37_Witness ==
    /\ phase = "ready" /\ live = {}
    /\ last.op = "dealloc" /\ last.seq = -1 /\ last.ptr # region[1]
    /\ init_blocks # {}
    /\ FreeBlocks(buddy_heap.free_list, mem) = init_blocks
    /\ buddy_heap.total = 8192

----------------------------------------------------------------------------
(* The Slab allocator asked for alignments above and below the class size *)

\* layouts whose alignment is larger than the block of their class, next to
\* layouts whose alignment is not
SlabAlignLayouts ==
    { Layout(8, 4096), Layout(8, 128), Layout(64, 64), Layout(100, 128),
      Layout(100, 256), Layout(4096, 4096), Layout(4097, 8192) }

SlabAlignAllocStep == \E l \in SlabAlignLayouts : SlabAlloc(l)

NextSlabAlign == SlabInitStep \/ SlabAlignAllocStep \/ SlabDeallocStep

SpecSlabAlign == Init /\ [][NextSlabAlign]_vars

\* C38: for every layout the Slab allocator accepts, those whose alignment is
\* larger than the block of the selected class included, the address alloc
\* returns is a multiple of layout.align.
C38_SlabAligned ==
    (last.op = "alloc" /\ last.ret = "ok") => last.ptr % last.align = 0

\* what the code does hold to: the address is a multiple of the alignment when
\* the alignment is at most the block of the class, and on the Buddy path
C38_AlignedUpToClass ==
    (last.op = "alloc" /\ last.ret = "ok"
        /\ (last.class = BUDDY_HEAP \/ last.align <= last.class)) =>
        last.ptr % last.align = 0

\* alloc(size 8, align 4096) as the first call over [0x2000, 0x4000): the block
\* returned is the last of the chunk, 0x2000 + 63 * 64
C38_Misaligned ==
    /\ region = <<8192, 8192>>
    /\ last.op = "alloc" /\ last.seq = 0 /\ last.ret = "ok"
    /\ last.size = 8 /\ last.align = 4096
    /\ last.ptr = 8192 + 63 * 64

\* an alignment above 4096 on the Buddy path is kept
C38_BuddyPathAligned ==
    /\ last.op = "alloc" /\ last.ret = "ok"
    /\ last.size = 4097 /\ last.align = 8192 /\ last.ptr % 8192 = 0

(***************************************************************************)
(* A VirtAddr converted back to a raw value (mm/address.rs).               *)
(***************************************************************************)

\* v.0 >= (1 << (VA_WIDTH_SV39 - 1)) on the bits of v.0
at_least_half(v) == \E i \in v : i >= VA_WIDTH_SV39 - 1

\* From<VirtAddr> for usize: v.0 | !((1 << VA_WIDTH_SV39) - 1) from bit 38 up
usize_from_VirtAddr(v) ==
    IF at_least_half(v) THEN v \cup (VA_WIDTH_SV39..(USIZE_BITS - 1)) ELSE v

\* usize::from(va) for the VirtAddr at hand
FromVirtAddr ==
    /\ addr.type = "VirtAddr"
    /\ conv' = Conv("usize::from", addr.value, usize_from_VirtAddr(addr.value), FALSE)
    /\ addr' = [type |-> "usize", value |-> usize_from_VirtAddr(addr.value)]
    /\ UNCHANGED not_addr_vars

NextRound == ToVirtAddr \/ Spin \/ FromVirtAddr

SpecRound == InitRaw /\ [][NextRound]_vars

\* C39: a raw value v that VirtAddr::from accepted comes back as v when the
\* VirtAddr is converted to usize
C39_RoundTrip ==
    [][(conv.op = "VirtAddr::from" /\ conv'.op = "usize::from")
          => conv'.out = conv.arg]_vars

\* the round trip does give v back when bit 38 of v equals its bits 39..63
C39_CanonicalRoundTrip ==
    [][(/\ conv.op = "VirtAddr::from"
        /\ conv'.op = "usize::from"
        /\ sar(conv.arg, VA_WIDTH_SV39 - 1) \in {IsizeZero, IsizeMinusOne})
          => conv'.out = conv.arg]_vars

\* 1 << 38 was accepted and came back with bits 39..63 set
C39_Bit38Extended ==
    /\ conv.op = "usize::from"
    /\ conv.arg = {38}
    /\ conv.out = 38..63

\* a value with bits 38..63 all set went round unchanged
C39_HighHalfKept ==
    /\ conv.op = "usize::from"
    /\ conv.arg = 38..63
    /\ conv.out = conv.arg

(***************************************************************************)
(* The virtio HAL's DMA memory (drivers/block/virtio_blk.rs): dma_alloc    *)
(* keeps the FrameTrackers of the pages in QUEUE_FRAMES, dma_dealloc gives *)
(* the pages back to the frame allocator by number.                        *)
(***************************************************************************)

\* dma_alloc(pages) is called with pages in 0..MaxDmaPages
MaxDmaPages == 2

\* the record of a call on the HAL
DmaCall(op, pa, pages, frames, ret) ==
    [op |-> op, pa |-> pa, pages |-> pages, frames |-> frames, ret |-> ret]

\* the loop of dma_alloc from round i on: frames.pop().unwrap(), ppn_base set
\* in the last round, the frame pushed on QUEUE_FRAMES
RECURSIVE dma_alloc_loop(_, _, _, _, _)
dma_alloc_loop(frames, queue, ppn_base, i, pages) ==
    IF i >= pages
    THEN [queue |-> queue, ppn_base |-> ppn_base, panic |-> FALSE]
    ELSE IF Len(frames) = 0
    THEN [queue |-> queue, ppn_base |-> ppn_base, panic |-> TRUE]
    ELSE dma_alloc_loop(vec_pop(frames).vec,
                        vec_push(queue, vec_pop(frames).item),
                        IF i = pages - 1 THEN vec_pop(frames).item ELSE ppn_base,
                        i + 1, pages)

\* VirtioHal::dma_alloc: [fa, frames |-> what frame_alloc_contig gave,
\* queue |-> QUEUE_FRAMES after, pa |-> the value returned, panic]
dma_alloc(fa, queue, pages) ==
    LET c == StackFrameAllocator_alloc_contig(fa, pages)
        l == dma_alloc_loop(c.ret, queue, PhysPageNum_from_usize(0), 0, pages)
    IN  IF c.panic
        THEN [fa |-> c.fa, frames |-> <<>>, queue |-> queue, pa |-> 0, panic |-> TRUE]
        ELSE [fa |-> c.fa, frames |-> c.ret, queue |-> l.queue,
              pa |-> PhysAddr_from_PhysPageNum(l.ppn_base), panic |-> l.panic]

\* the loop of dma_dealloc with k rounds to go: frame_dealloc(ppn_base);
\* ppn_base.step()
RECURSIVE dma_dealloc_loop(_, _, _)
dma_dealloc_loop(fa, ppn_base, k) ==
    IF k = 0
    THEN [fa |-> fa, panic |-> FALSE]
    ELSE IF StackFrameAllocator_dealloc(fa, ppn_base).panic
    THEN [fa |-> fa, panic |-> TRUE]
    ELSE dma_dealloc_loop(StackFrameAllocator_dealloc(fa, ppn_base).fa, ppn_base + 1, k - 1)

\* VirtioHal::dma_dealloc: the page number of pa, then the loop; QUEUE_FRAMES
\* is not touched
dma_dealloc(fa, pa, pages) ==
    LET b == PhysPageNum_from_PhysAddr(pa)
    IN  IF b.panic THEN [fa |-> fa, ppn_base |-> b.ppn, panic |-> TRUE]
        ELSE [fa |-> dma_dealloc_loop(fa, b.ppn, pages).fa, ppn_base |-> b.ppn,
              panic |-> dma_dealloc_loop(fa, b.ppn, pages).panic]

\* dma_alloc(pages)
DmaAlloc(pages) ==
    /\ fphase = "ready"
    /\ \E r \in {dma_alloc(frame_allocator, queue_frames, pages)} :
          /\ frame_allocator' = r.fa
          /\ queue_frames' = r.queue
          /\ held' = HoldAll(held, r.frames)
          /\ issued' = issued \cup Pages(r.frames)
          /\ page_mem' = map_FrameTracker_new(page_mem, r.frames)
          /\ flast' = [FrameCall("frame_alloc_contig", pages, r.frames,
                                 IF r.panic THEN "panic" ELSE "ok", -1)
                          EXCEPT !.cleaned = Cleaned(page_mem, r.frames)]
          /\ fphase' = IF r.panic THEN "panicked" ELSE fphase
          /\ dma_bufs' = IF r.panic THEN dma_bufs ELSE dma_bufs \cup {<<r.pa, pages>>}
          /\ dlast' = DmaCall("dma_alloc", r.pa, pages, r.frames,
                              IF r.panic THEN "panic" ELSE "ok")
    /\ UNCHANGED frange
    /\ UNCHANGED not_dma_vars

\* dma_dealloc(pa, pages) with what a dma_alloc(pages) returned: the
\* FrameTrackers stay in QUEUE_FRAMES, so the handles to the pages stay live
DmaDealloc(pa, pages) ==
    /\ fphase = "ready"
    /\ <<pa, pages>> \in dma_bufs
    /\ \E r \in {dma_dealloc(frame_allocator, pa, pages)} :
          /\ frame_allocator' = r.fa
          /\ flast' = IF pages = 0 /\ ~r.panic THEN flast
                      ELSE FrameCall("dealloc", r.ppn_base, <<>>,
                                     IF r.panic THEN "panic" ELSE "ok", -1)
          /\ fphase' = IF r.panic THEN "panicked" ELSE fphase
          /\ dlast' = DmaCall("dma_dealloc", pa, pages, <<>>,
                              IF r.panic THEN "panic" ELSE "ok")
    /\ dma_bufs' = dma_bufs \ {<<pa, pages>>}
    /\ UNCHANGED <<queue_frames, held, issued, page_mem, frange>>
    /\ UNCHANGED not_dma_vars

DmaAllocStep == \E pages \in 0..MaxDmaPages : DmaAlloc(pages)

DmaDeallocStep == \E b \in dma_bufs : DmaDealloc(b[1], b[2])

\* the [l, r) the frame allocator is set up with
DmaRegions == {<<0, 2>>, <<8, 11>>}

DmaInitStep == \E reg \in DmaRegions : FrameInit(reg[1], reg[2])

\* the HAL, and frame_alloc() called by the rest of the kernel
NextDma == DmaInitStep \/ DmaAllocStep \/ DmaDeallocStep \/ FrameAllocStep

SpecDma == Init /\ [][NextDma]_vars

\* the smallest of a set of page numbers
LowestPage(ps) == CHOOSE p \in ps : \A q \in ps : p <= q

\* how many FrameTrackers of QUEUE_FRAMES are of page p
TrackersOf(p) == Cardinality({i \in 1..Len(queue_frames) : queue_frames[i] = p})

\* dma_alloc returns the address of the lowest page it was given and leaves
\* the trackers of all of them in QUEUE_FRAMES
DmaAllocKeeps ==
    (dlast.op = "dma_alloc" /\ dlast.ret = "ok" /\ dlast.pages > 0) =>
        /\ Len(dlast.frames) = dlast.pages
        /\ Pages(dlast.frames) = LowestPage(Pages(dlast.frames))
                                    .. (LowestPage(Pages(dlast.frames)) + dlast.pages - 1)
        /\ dlast.pa = LowestPage(Pages(dlast.frames)) * PAGE_SIZE
        /\ Pages(dlast.frames) \subseteq Pages(queue_frames)

\* no page owned by a tracker of QUEUE_FRAMES is in the recycle list or handed
\* out a second time
OwnedNotFree ==
    \A p \in Pages(queue_frames) :
        /\ ~vec_any_eq(frame_allocator.recycled, p)
        /\ held[p] = 1

\* no page is twice in the recycle list
RecycledOnce ==
    \A i, j \in 1..Len(frame_allocator.recycled) :
        frame_allocator.recycled[i] = frame_allocator.recycled[j] => i = j

\* C40: dma_alloc(pages) returns the physical address of the lowest page of
\* the contiguous frames it allocated and stores their FrameTrackers in
\* QUEUE_FRAMES; after a matching dma_dealloc no page is both in the recycle
\* list (or re-issued) and owned by a FrameTracker of QUEUE_FRAMES, and no
\* page is in the allocator twice
C40_DmaOwnership == DmaAllocKeeps /\ OwnedNotFree /\ RecycledOnce

\* what dma_alloc gives and keeps is as stated, and the recycle list never
\* holds a page twice
C40_AllocAndRecycle == DmaAllocKeeps /\ RecycledOnce

\* dma_alloc(2) returned the address of the lower of its two pages
C40_TwoPages ==
    /\ dlast.op = "dma_alloc"
    /\ dlast.ret = "ok"
    /\ dlast.frames = <<8, 9>>
    /\ dlast.pa = 8 * PAGE_SIZE
    /\ queue_frames = <<9, 8>>

\* after the matching dma_dealloc the page is in the recycle list and its
\* tracker in QUEUE_FRAMES
C40_RecycledAndOwned ==
    /\ dlast.op = "dma_dealloc"
    /\ dlast.ret = "ok"
    /\ dlast.pages = 1
    /\ \E p \in Pages(queue_frames) :
          /\ dlast.pa = p * PAGE_SIZE
          /\ vec_any_eq(frame_allocator.recycled, p)

\* a later frame_alloc() was given a page whose tracker is in QUEUE_FRAMES
C40_Reissued ==
    /\ flast.op = "frame_alloc"
    /\ flast.ret = "ok"
    /\ flast.pages[1] \in Pages(queue_frames)
    /\ held[flast.pages[1]] = 2

====
